---------------------------- MODULE Spec2Model ----------------------------
(***************************************************************************)
(* A model of the chunking, dispatch, retry and assembly code of the SQL   *)
(* converter (src/sql_converter.py) and of the stored-procedure extractor  *)
(* (src/sql_extractor.py).                                                 *)
(*                                                                         *)
(* Texts are TLA+ strings; Len, SubSeq and \o act on them character by     *)
(* character, as Python's len, slicing and + do.  Python's None and the    *)
(* str values are kept apart by a tag: None is <<"None">> and the string s *)
(* is <<"str", s>>.                                                        *)
(*                                                                         *)
(* The specifications share the variables:                                 *)
(*   SpecChunk         the chunkers applied to bounded inputs              *)
(*   Spec              SQLConverter.convert_sql / _convert_sql_parallel,   *)
(*                     called as main calls it                             *)
(*   SpecArguments     the same, called with any dialect arguments         *)
(*   SpecExtract       SQLExtractor.process_sql_file / extract_from_chunk  *)
(*   SpecExtractFair   the same with progress, on short files              *)
(*   SpecExtractFiles  process_sql_file called for one file after another  *)
(*   SpecMain          load_sql_files and the loop of main                 *)
(***************************************************************************)
EXTENDS Integers, Sequences, FiniteSets, TLC

VARIABLES
    \* ---- translation path (src/sql_converter.py)
    source_db_type,   \* SQLConverter.source_db_type
    target_db_type,   \* SQLConverter.target_db_type
    source_type,      \* the argument source_type of convert_sql
    target_type,      \* the argument target_type of convert_sql
    prompt_template,  \* what PromptOptimizer.load_original_prompt() returns
    api_error,        \* the error the provider raises when a call fails
    sql_content,      \* the argument sql_content of convert_sql and of either
                      \* _split_sql_into_chunks
    max_chunk_size,   \* the argument max_chunk_size of _split_sql_into_chunks
    chunks,           \* the list returned by _split_sql_into_chunks
    pc,               \* position of the calling coroutine
    tasks,            \* per chunk, the state of its _convert_sql_chunk task
    work_queue,       \* ThreadPoolExecutor's queue of submitted API calls
    results,          \* the list asyncio.gather builds
    converted_sql,    \* the value _convert_sql_parallel / convert_sql returns
    \* ---- extraction path (src/sql_extractor.py)
    file_readable,    \* whether open(file_path) succeeds
    ext_chunks,       \* the list returned by SQLExtractor._split_sql_into_chunks
    ext_i,            \* index i of the loop of process_sql_file (1-based)
    attempt,          \* loop variable of extract_from_chunk (0-based)
    ext_pc,           \* position inside process_sql_file / extract_from_chunk
    partial_results,  \* SQLExtractor.partial_results
    final_results,    \* local final_results of process_sql_file
    ext_returned,     \* the value process_sql_file returns
    unit_answers,     \* per finished unit, the extraction the model gave
                      \* as <<extraction>>, <<>> if the unit failed for good
    unit_calls,       \* number of model calls made for the current unit
    last_outcome,     \* what the latest model call did
    last_sleep,       \* the delay of the latest asyncio.sleep
    raised,           \* the exception extract_from_chunk raised, "" if none
    ext_splits,       \* per procedure the chunker split, its lines and the
                      \* header_lines and body_lines made of them
    file_no,          \* number of the process_sql_file call (1-based)
    units_before,     \* number of units of the files of the earlier calls
    seeded_in,        \* per record of partial_results, the number of the
                      \* call that appended it
    earlier_returned, \* the lists the earlier process_sql_file calls
                      \* returned, as their objects are now
    abandoned_calls,  \* number of model calls that asyncio.wait_for gave
                      \* up and whose thread is still running
    \* ---- main (src/sql_converter.py)
    source_path,      \* SQLConverter.source_path (SOURCE_DB_CODE_FILE)
    target_config,    \* SQLConverter.target_config (TARGET_DB_CODE_FILE)
    sql_files,        \* the list load_sql_files returned
    main_pc,          \* position inside main
    file_i,           \* index of the loop of main over sql_files (1-based)
    conversions,      \* per file taken by the loop, whether convert_sql gave
                      \* a text
    writes,           \* the files written, in order, as [source, target]
    main_error,       \* the exception main caught, "" if none
    sql_chunks        \* the list split_sql_content returned

conv_vars == <<source_db_type, target_db_type, source_type, target_type,
               prompt_template, api_error, sql_content, max_chunk_size,
               chunks, pc, tasks, work_queue, results, converted_sql>>
ext_vars == <<file_readable, ext_chunks, ext_i, attempt, ext_pc,
              partial_results, final_results, ext_returned, unit_answers,
              unit_calls, last_outcome, last_sleep, raised, ext_splits,
              file_no, units_before, seeded_in, earlier_returned,
              abandoned_calls>>
main_vars == <<source_path, target_config, sql_files, main_pc, file_i,
               conversions, writes, main_error, sql_chunks>>
vars == <<conv_vars, ext_vars, main_vars>>

-----------------------------------------------------------------------------
(* Python values *)

None == <<"None">>
Str(s) == <<"str", s>>
IsStr(v) == v[1] = "str"
StrOf(v) == v[2]

-----------------------------------------------------------------------------
(* Python str operations, character by character *)

\* The characters str.strip() removes (the ASCII ones that occur in SQL text).
Whitespace == {" ", "\n", "\t", "\r"}

CharAt(s, i) == SubSeq(s, i, i)

\* str.find(sub, from): the first index >= from at which sub occurs, 0 if none.
RECURSIVE Find(_, _, _)
Find(s, sub, from) ==
    IF from + Len(sub) - 1 > Len(s) THEN 0
    ELSE IF SubSeq(s, from, from + Len(sub) - 1) = sub THEN from
    ELSE Find(s, sub, from + 1)

\* str.split(sep): the pieces between the leftmost non-overlapping
\* occurrences of sep; a text without sep is returned as the only piece.
RECURSIVE Split(_, _)
Split(s, sep) ==
    LET k == Find(s, sep, 1)
    IN  IF k = 0 THEN <<s>>
        ELSE <<SubSeq(s, 1, k - 1)>>
                 \o Split(SubSeq(s, k + Len(sep), Len(s)), sep)

RECURSIVE LStrip(_)
LStrip(s) ==
    IF Len(s) > 0 /\ CharAt(s, 1) \in Whitespace
    THEN LStrip(SubSeq(s, 2, Len(s))) ELSE s

RECURSIVE RStrip(_)
RStrip(s) ==
    IF Len(s) > 0 /\ CharAt(s, Len(s)) \in Whitespace
    THEN RStrip(SubSeq(s, 1, Len(s) - 1)) ELSE s

\* str.strip()
Strip(s) == RStrip(LStrip(s))

\* sep.join(ss)
RECURSIVE Join(_, _)
Join(ss, sep) ==
    IF Len(ss) = 0 THEN ""
    ELSE IF Len(ss) = 1 THEN ss[1]
    ELSE ss[1] \o sep \o Join(Tail(ss), sep)

\* str.replace(old, new)
Replace(s, old, new) == Join(Split(s, old), new)

\* The concatenation of a list of texts.
Concat(ss) == Join(ss, "")

\* s without its whitespace characters.
RECURSIVE RemoveWhitespace(_)
RemoveWhitespace(s) ==
    IF Len(s) = 0 THEN ""
    ELSE (IF CharAt(s, 1) \in Whitespace THEN "" ELSE CharAt(s, 1))
             \o RemoveWhitespace(SubSeq(s, 2, Len(s)))

\* str.lower(), letter by letter.
UpperLetters == "ABCDEFGHIJKLMNOPQRSTUVWXYZ"
LowerLetters == "abcdefghijklmnopqrstuvwxyz"

LowerChar(c) ==
    LET k == Find(UpperLetters, c, 1)
    IN  IF k = 0 THEN c ELSE CharAt(LowerLetters, k)

RECURSIVE Lower(_)
Lower(s) ==
    IF Len(s) = 0 THEN ""
    ELSE LowerChar(CharAt(s, 1)) \o Lower(SubSeq(s, 2, Len(s)))

\* str.startswith(prefix)
StartsWith(s, prefix) ==
    Len(s) >= Len(prefix) /\ SubSeq(s, 1, Len(prefix)) = prefix

\* The lists of at most n elements of S.
RECURSIVE SeqsUpTo(_, _)
SeqsUpTo(S, n) ==
    IF n = 0 THEN {<<>>}
    ELSE LET shorter == SeqsUpTo(S, n - 1)
         IN  shorter \cup {Append(q, e) : q \in shorter, e \in S}

-----------------------------------------------------------------------------
(* The translation chunker: SQLConverter._split_sql_into_chunks *)

\* The default of the parameter max_chunk_size.
DefaultMaxChunkSize == 8000

\* for block in blocks: the chunks the blocks of one oversized proc give.
RECURSIVE BlockChunks(_, _)
BlockChunks(blocks, proc) ==
    IF Len(blocks) = 0 THEN <<>>
    ELSE LET block == Head(blocks)
         IN  (IF Strip(block) = "" THEN <<>>
              ELSE IF block = proc THEN <<"create proc" \o block>>
              ELSE <<"begin" \o block>>)
                 \o BlockChunks(Tail(blocks), proc)

\* for proc in procs: the chunks the pieces of one oversized statement give.
RECURSIVE ProcChunks(_, _)
ProcChunks(procs, max) ==
    IF Len(procs) = 0 THEN <<>>
    ELSE LET proc == Head(procs)
         IN  (IF Strip(proc) = "" THEN <<>>
              ELSE IF Len(proc) > max
                   THEN BlockChunks(Split(proc, "begin"), proc)
                   ELSE <<"create proc" \o proc>>)
                 \o ProcChunks(Tail(procs), max)

\* A variant of Statements that keeps the statements untrimmed.
RECURSIVE StatementsUntrimmed(_)
StatementsUntrimmed(pieces) ==
    IF Len(pieces) = 0 THEN <<>>
    ELSE (IF Strip(Head(pieces)) = "" THEN <<>> ELSE <<Head(pieces)>>)
             \o StatementsUntrimmed(Tail(pieces))

\* statements = [stmt.strip() for stmt in sql_content.split('go') if stmt.strip()]
RECURSIVE Statements(_)
Statements(pieces) ==
    IF Len(pieces) = 0 THEN <<>>
    ELSE (IF Strip(Head(pieces)) = "" THEN <<>> ELSE <<Strip(Head(pieces))>>)
             \o Statements(Tail(pieces))

\* for stmt in statements: the chunks each statement gives.
RECURSIVE StmtChunks(_, _)
StmtChunks(statements, max) ==
    IF Len(statements) = 0 THEN <<>>
    ELSE LET stmt == Head(statements)
         IN  (IF Len(stmt) > max
              THEN ProcChunks(Split(stmt, "create proc"), max)
              ELSE <<stmt>>)
                 \o StmtChunks(Tail(statements), max)

split_sql_into_chunks(sql, max) ==
    StmtChunks(Statements(Split(sql, "go")), max)

-----------------------------------------------------------------------------
(* The module-level translation chunker: split_sql_content *)

\* chunks after the chunks.append calls of a loop: what each pass appended,
\* in the order of the passes.
RECURSIVE Appended(_)
Appended(passes) ==
    IF Len(passes) = 0 THEN <<>>
    ELSE Head(passes) \o Appended(Tail(passes))

\* A variant of ContentBlockChunks that gives every block the prefix of its
\* split, begin.
ContentBlockChunksBegin(proc) ==
    LET blocks == Split(proc, "begin")
        kept == SelectSeq(blocks, LAMBDA block : Strip(block) # "")
    IN  [n \in 1..Len(kept) |-> "begin" \o kept[n]]

\* blocks = proc.split('begin') and the loop over them, for a proc longer
\* than max_chunk_size: the blocks that are not blank, each with a prefix.
ContentBlockChunks(proc) ==
    LET blocks == Split(proc, "begin")
        kept == SelectSeq(blocks, LAMBDA block : Strip(block) # "")
    IN  [n \in 1..Len(kept) |->
            IF kept[n] = proc THEN "create proc" \o kept[n]
            ELSE "begin" \o kept[n]]

\* procs = stmt.split('create proc') and the loop over them, for a stmt
\* longer than max_chunk_size.
ContentProcChunks(stmt, max) ==
    LET procs == Split(stmt, "create proc")
        kept == SelectSeq(procs, LAMBDA proc : Strip(proc) # "")
    IN  Appended([n \in 1..Len(kept) |->
                     IF Len(kept[n]) > max
                     THEN ContentBlockChunks(kept[n])
                     ELSE <<"create proc" \o kept[n]>>])

\* split_sql_content(sql_content, max_chunk_size)
split_sql_content(sql, max) ==
    LET pieces == Split(sql, "go")
        stripped == [n \in 1..Len(pieces) |-> Strip(pieces[n])]
        statements == SelectSeq(stripped, LAMBDA stmt : stmt # "")
    IN  Appended([n \in 1..Len(statements) |->
                     IF Len(statements[n]) > max
                     THEN ContentProcChunks(statements[n], max)
                     ELSE <<statements[n]>>])

-----------------------------------------------------------------------------
(* The extraction chunker: SQLExtractor._split_sql_into_chunks              *)
(*                                                                         *)
(* Its argument is kept as the list sql_content.split('\n') of its lines,  *)
(* and a chunk's content as the list of lines that '\n'.join makes a text  *)
(* of.  A line is a text followed by pad blanks, so that a line of many     *)
(* thousand characters is written with a number.                           *)

\* self.max_input_tokens
max_input_tokens == 6000

Line(text, pad) == [text |-> text, pad |-> pad]

\* The text "": sql_content.split('\n') gives the one empty line.
EmptyContent == <<Line("", 0)>>

\* len(line)
LineLen(line) == Len(line.text) + line.pad

\* line.strip(): the blanks after the text go with its trailing whitespace.
LineStrip(line) == Strip(line.text)

\* len('\n'.join(lines))
RECURSIVE SumLineLen(_)
SumLineLen(lines) ==
    IF Len(lines) = 0 THEN 0
    ELSE LineLen(Head(lines)) + SumLineLen(Tail(lines))

JoinedLen(lines) ==
    IF Len(lines) = 0 THEN 0 ELSE SumLineLen(lines) + Len(lines) - 1

\* _estimate_tokens(text), of a text of n characters: len(text) // 3
estimate_tokens(n) == n \div 3

\* line.split()[-1].strip(): the last word of a line that is not blank.
RECURSIVE LastWordFrom(_, _)
LastWordFrom(t, k) ==
    IF k = 0 \/ CharAt(t, k) \in Whitespace THEN SubSeq(t, k + 1, Len(t))
    ELSE LastWordFrom(t, k - 1)

LastWord(line) == LET t == RStrip(line.text) IN LastWordFrom(t, Len(t))

\* The blanks that bring a line over max_input_tokens tokens.
LongPad == 3 * max_input_tokens

\* The lines files are built from: two procedure headings (one in upper
\* case and long), the two starts of a body (one in upper case), a long and
\* a blank statement line, and the separator.
FileLines ==
    {Line("create proc pa", 0), Line("CREATE PROCEDURE pb", LongPad),
     Line("as", 0), Line("BEGIN", 0), Line("select 1", LongPad),
     Line("   ", 0), Line("go", 0)}

\* A procedure heading that carries its parameter after the name, and the
\* lines of the files built around it.
ParameterLines == {Line("create proc pa @n int", 0)}

ParameterFileLines ==
    ParameterLines
        \cup {Line("as", 0), Line("select 1", LongPad), Line("go", 0)}

AllLines == FileLines \cup ParameterLines

\* What the chunker computes from a line, tabulated for the lines above:
\* line.strip().lower(), the two startswith tests and the procedure name.
LineLower == [line \in AllLines |-> Lower(LineStrip(line))]

StartsProcedure ==
    [line \in AllLines |->
        StartsWith(LineLower[line], "create proc")
            \/ StartsWith(LineLower[line], "create procedure")]

StartsBody ==
    [line \in AllLines |->
        StartsWith(LineLower[line], "as")
            \/ StartsWith(LineLower[line], "begin")]

ProcNameOf == [line \in AllLines |-> LastWord(line)]

IsBlank == [line \in AllLines |-> LineStrip(line) = ""]

\* A chunk; -1 stands for an absent key chunk_index or total_chunks.
Chunk(type, content, proc_name, chunk_index, total_chunks) ==
    [type |-> type, content |-> content, proc_name |-> proc_name,
     chunk_index |-> chunk_index, total_chunks |-> total_chunks]

\* A variant of FirstBodyLine that takes the last such line.
LastBodyLine(current_chunk) ==
    LET IsBodyStart(k) == StartsBody[current_chunk[k]]
    IN  IF \E k \in 1..Len(current_chunk) : IsBodyStart(k)
        THEN CHOOSE k \in 1..Len(current_chunk) :
                 IsBodyStart(k)
                     /\ \A j \in (k + 1)..Len(current_chunk) : ~IsBodyStart(j)
        ELSE Len(current_chunk) + 1

\* The index of the first line of current_chunk that starts the body ('as'
\* or 'begin' after strip and lower), Len + 1 if there is none: the lines
\* before it are header_lines, the lines from it on are body_lines.
FirstBodyLine(current_chunk) ==
    LET IsBodyStart(k) == StartsBody[current_chunk[k]]
    IN  IF \E k \in 1..Len(current_chunk) : IsBodyStart(k)
        THEN CHOOSE k \in 1..Len(current_chunk) :
                 IsBodyStart(k) /\ \A j \in 1..(k - 1) : ~IsBodyStart(j)
        ELSE Len(current_chunk) + 1

\* for body_line in body_lines: the body chunks, current_body_chunk being
\* the lines gathered so far and current_tokens their tokens.
RECURSIVE BodyChunks(_, _, _)
BodyChunks(body_lines, current_body_chunk, current_tokens) ==
    IF Len(body_lines) = 0
    THEN IF Len(current_body_chunk) > 0 THEN <<current_body_chunk>> ELSE <<>>
    ELSE LET body_line == Head(body_lines)
             line_tokens == estimate_tokens(LineLen(body_line))
         IN  IF current_tokens + line_tokens > max_input_tokens
                    /\ Len(current_body_chunk) > 0
             THEN <<current_body_chunk>>
                      \o BodyChunks(Tail(body_lines), <<body_line>>, line_tokens)
             ELSE BodyChunks(Tail(body_lines),
                             Append(current_body_chunk, body_line),
                             current_tokens + line_tokens)

\* for proc_line in current_chunk: the header_lines and body_lines of a
\* procedure that is too long.
HeaderAndBody(current_chunk) ==
    LET k == FirstBodyLine(current_chunk)
    IN  [scope |-> current_chunk,
         header_lines |-> SubSeq(current_chunk, 1, k - 1),
         body_lines |-> SubSeq(current_chunk, k, Len(current_chunk))]

\* The chunks appended when the line go closes a procedure: the procedure
\* whole, or its header and its body, the body in parts if it is too long.
ProcedureChunks(current_chunk, current_proc_name) ==
    IF estimate_tokens(JoinedLen(current_chunk)) > max_input_tokens
    THEN LET header_lines == HeaderAndBody(current_chunk).header_lines
             body_lines == HeaderAndBody(current_chunk).body_lines
             header == Chunk("header", header_lines, current_proc_name, -1, -1)
         IN  IF estimate_tokens(JoinedLen(body_lines)) > max_input_tokens
             THEN LET body_chunks == BodyChunks(body_lines, <<>>, 0)
                  IN  <<header>>
                          \o [i \in 1..Len(body_chunks) |->
                                 Chunk("body", body_chunks[i],
                                       current_proc_name, i - 1,
                                       Len(body_chunks))]
             ELSE <<header,
                    Chunk("body", body_lines, current_proc_name, -1, -1)>>
    ELSE <<Chunk("full", current_chunk, current_proc_name, -1, -1)>>

\* for line in sql_content.split('\n'): the loop, st holding chunks,
\* current_chunk, in_procedure and current_proc_name.  st.splits notes the
\* header_lines and body_lines of each procedure that was split.
RECURSIVE ScanLines(_, _)
ScanLines(lines, st) ==
    IF Len(lines) = 0 THEN st
    ELSE LET line == Head(lines)
             line_lower == LineLower[line]
             starts == StartsProcedure[line]
             save == st.in_procedure /\ Len(st.current_chunk) > 0
             st1 == IF starts
                    THEN [chunks |->
                              IF save
                              THEN Append(st.chunks,
                                          Chunk("full", st.current_chunk,
                                                st.current_proc_name, -1, -1))
                              ELSE st.chunks,
                          current_chunk |->
                              IF save THEN <<>> ELSE st.current_chunk,
                          in_procedure |-> TRUE,
                          current_proc_name |-> ProcNameOf[line],
                          splits |-> st.splits]
                    ELSE st
             collected == Append(st1.current_chunk, line)
             st2 == IF ~st1.in_procedure THEN st1
                    ELSE IF line_lower = "go"
                    THEN [chunks |->
                              st1.chunks
                                  \o ProcedureChunks(collected,
                                                     st1.current_proc_name),
                          current_chunk |-> <<>>,
                          in_procedure |-> FALSE,
                          current_proc_name |-> "",
                          splits |->
                              IF estimate_tokens(JoinedLen(collected))
                                     > max_input_tokens
                              THEN Append(st1.splits, HeaderAndBody(collected))
                              ELSE st1.splits]
                    ELSE [st1 EXCEPT !.current_chunk = collected]
         IN  ScanLines(Tail(lines), st2)

\* A variant of HasText that keeps every chunk.
AnyContent(content) == TRUE

\* chunk['content'].strip(): a content with a line that is not blank.
HasText(content) == \E k \in 1..Len(content) : ~IsBlank[content[k]]

\* [chunk for chunk in chunks if chunk['content'].strip()]
RECURSIVE WithText(_)
WithText(cs) ==
    IF Len(cs) = 0 THEN <<>>
    ELSE (IF HasText(Head(cs).content) THEN <<Head(cs)>> ELSE <<>>)
             \o WithText(Tail(cs))

\* The loop from its first line to its last.
extractor_scan(lines) ==
    ScanLines(lines, [chunks |-> <<>>, current_chunk |-> <<>>,
                      in_procedure |-> FALSE, current_proc_name |-> "",
                      splits |-> <<>>])

extractor_split_sql_into_chunks(lines) ==
    IF lines = EmptyContent THEN <<>>
    ELSE LET st == extractor_scan(lines)
             all == IF Len(st.current_chunk) > 0
                    THEN Append(st.chunks,
                                Chunk("full", st.current_chunk,
                                      st.current_proc_name, -1, -1))
                    ELSE st.chunks
         IN  WithText(all)

-----------------------------------------------------------------------------
(* Bounded inputs of the chunkers *)

\* The longest input, counted in fragments.
MaxFrags == 3

\* The pieces inputs are built from: the three markers the chunker looks
\* for, an upper-case separator, a word and the two usual blanks.
Fragments == {"go", "GO", "create proc", "begin", "x", " ", "\n"}

ChunkerTexts == {Concat(q) : q \in SeqsUpTo(Fragments, MaxFrags)}

\* The budgets tried: two that small inputs exceed, and the default.
Budgets == {2, 12, DefaultMaxChunkSize}

\* Texts of up to MaxStatements statements with the separator token between
\* them.
MaxStatements == 3

StatementTexts == {"SELECT 1", " SELECT 2 ", "x\n"}

SeparatedTexts ==
    {Join(q, "go") : q \in SeqsUpTo(StatementTexts, MaxStatements) \ {<<>>}}

\* The longest file given to the extraction chunker, counted in lines.
MaxLines == 6

\* The longest file with a parameter in a heading.
MaxParameterLines == 4

ExtractorTexts ==
    {EmptyContent}
        \cup UNION {[1..n -> FileLines] : n \in 1..MaxLines}
        \cup UNION {[1..n -> ParameterFileLines] : n \in 1..MaxParameterLines}

-----------------------------------------------------------------------------
(* Idle values of the parts a specification does not use *)

ConvIdle ==
    /\ source_db_type = "SYBASE"
    /\ target_db_type = "POSTGRESQL"
    /\ source_type = None
    /\ target_type = None
    /\ prompt_template = None
    /\ api_error = "APIError"
    /\ sql_content = ""
    /\ max_chunk_size = DefaultMaxChunkSize
    /\ chunks = <<>>
    /\ pc = "idle"
    /\ tasks = <<>>
    /\ work_queue = <<>>
    /\ results = <<>>
    /\ converted_sql = <<"unset">>

ExtIdle ==
    /\ file_readable = TRUE
    /\ ext_chunks = <<>>
    /\ ext_i = 0
    /\ attempt = 0
    /\ ext_pc = "idle"
    /\ partial_results = <<>>
    /\ final_results = <<>>
    /\ ext_returned = <<"unset">>
    /\ unit_answers = <<>>
    /\ unit_calls = 0
    /\ last_outcome = ""
    /\ last_sleep = 0
    /\ raised = ""
    /\ ext_splits = <<>>
    /\ file_no = 0
    /\ units_before = 0
    /\ seeded_in = <<>>
    /\ earlier_returned = <<>>
    /\ abandoned_calls = 0

MainIdle ==
    /\ source_path = ""
    /\ target_config = "auto"
    /\ sql_files = <<>>
    /\ main_pc = "idle"
    /\ file_i = 0
    /\ conversions = <<>>
    /\ writes = <<>>
    /\ main_error = ""
    /\ sql_chunks = <<"unset">>

-----------------------------------------------------------------------------
(* SpecChunk: each _split_sql_into_chunks, and split_sql_content, applied   *)
(* to every bounded input                                                  *)

InitChunk ==
    /\ MainIdle
    /\ source_db_type = "SYBASE"
    /\ target_db_type = "POSTGRESQL"
    /\ source_type = None
    /\ target_type = None
    /\ prompt_template = None
    /\ api_error = "APIError"
    /\ chunks = <<>>
    /\ tasks = <<>>
    /\ work_queue = <<>>
    /\ results = <<>>
    /\ converted_sql = <<"unset">>
    /\ file_readable = TRUE
    /\ ext_chunks = <<>>
    /\ ext_i = 0
    /\ attempt = 0
    /\ partial_results = <<>>
    /\ final_results = <<>>
    /\ ext_returned = <<"unset">>
    /\ unit_answers = <<>>
    /\ unit_calls = 0
    /\ last_outcome = ""
    /\ last_sleep = 0
    /\ raised = ""
    /\ ext_splits = <<>>
    /\ file_no = 0
    /\ units_before = 0
    /\ seeded_in = <<>>
    /\ earlier_returned = <<>>
    /\ abandoned_calls = 0
    /\ \/ /\ sql_content \in ChunkerTexts \cup SeparatedTexts
          /\ max_chunk_size \in Budgets
          /\ pc = "chunker_called"
          /\ ext_pc = "idle"
       \/ /\ sql_content \in ExtractorTexts
          /\ max_chunk_size = DefaultMaxChunkSize
          /\ pc = "idle"
          /\ ext_pc = "chunker_called"

\* One call of SQLConverter._split_sql_into_chunks(sql_content,
\* max_chunk_size).
SplitSqlIntoChunks ==
    /\ pc = "chunker_called"
    /\ chunks' = split_sql_into_chunks(sql_content, max_chunk_size)
    /\ pc' = "chunker_returned"
    /\ UNCHANGED <<source_type, target_type>>
    /\ UNCHANGED <<source_db_type, target_db_type, prompt_template, api_error,
                   sql_content, max_chunk_size, tasks, work_queue, results,
                   converted_sql>>
    /\ UNCHANGED ext_vars
    /\ UNCHANGED main_vars

\* One call of SQLExtractor._split_sql_into_chunks(sql_content).
ExtractorSplitSqlIntoChunks ==
    /\ ext_pc = "chunker_called"
    /\ ext_chunks' = extractor_split_sql_into_chunks(sql_content)
    /\ ext_splits' = IF sql_content = EmptyContent THEN <<>>
                     ELSE extractor_scan(sql_content).splits
    /\ ext_pc' = "chunker_returned"
    /\ UNCHANGED abandoned_calls
    /\ UNCHANGED <<file_readable, ext_i, attempt, partial_results,
                   final_results, ext_returned, unit_answers, unit_calls,
                   last_outcome, last_sleep, raised, file_no, units_before,
                   seeded_in, earlier_returned>>
    /\ UNCHANGED conv_vars
    /\ UNCHANGED main_vars

\* One call of split_sql_content(sql_content, max_chunk_size), on the text
\* and with the budget given to the method.
SplitSqlContent ==
    /\ pc \in {"chunker_called", "chunker_returned"}
    /\ sql_chunks = <<"unset">>
    /\ sql_chunks' = split_sql_content(sql_content, max_chunk_size)
    /\ UNCHANGED <<source_path, target_config, sql_files, main_pc, file_i,
                   conversions, writes, main_error>>
    /\ UNCHANGED conv_vars
    /\ UNCHANGED ext_vars

NextChunk ==
    \/ SplitSqlIntoChunks
    \/ SplitSqlContent
    \/ ExtractorSplitSqlIntoChunks

SpecChunk == InitChunk /\ [][NextChunk]_vars

-----------------------------------------------------------------------------
(* C10 *)

\* C10 (as claimed): once the chunker has returned, the contents of its units,
\* concatenated, are the characters of the input without the separator
\* tokens, in the original order, none lost, duplicated or added (whitespace,
\* which the chunker may trim, is left out of the comparison).
C10_ChunksPreserveText ==
    pc = "chunker_returned" =>
        RemoveWhitespace(Concat(chunks))
            = RemoveWhitespace(Replace(sql_content, "go", ""))

-----------------------------------------------------------------------------
(* C11 - C14: the translation chunker *)

HasMarker(s) == Find(s, "create proc", 1) # 0 \/ Find(s, "begin", 1) # 0

\* C11 (as claimed): every unit the chunker returns is within the budget
\* max_chunk_size, unless it holds neither the procedure-definition keyword
\* nor the block-begin keyword.
C11_UnitsWithinBudgetOrAtomic ==
    pc = "chunker_returned" =>
        \A i \in 1..Len(chunks) :
            Len(chunks[i]) <= max_chunk_size \/ ~HasMarker(chunks[i])

\* C12: for a text of k statements, non-empty after trimming and each within
\* the budget, with the separator token go between them, the chunker returns
\* exactly the k trimmed statements in their original order.
C12_OneUnitPerStatement ==
    pc = "chunker_returned" =>
        \A q \in SeqsUpTo(StatementTexts, MaxStatements) :
            (/\ Len(q) >= 1
             /\ sql_content = Join(q, "go")
             /\ \A i \in 1..Len(q) : Len(Strip(q[i])) <= max_chunk_size)
                => chunks = [i \in 1..Len(q) |-> Strip(q[i])]

\* C12 witness: three statements with blanks around them gave three trimmed
\* units in order.
C12_Witness ==
    /\ pc = "chunker_returned"
    /\ sql_content = Join(<<"SELECT 1", " SELECT 2 ", "x\n">>, "go")
    /\ max_chunk_size = 12
    /\ chunks = <<"SELECT 1", "SELECT 2", "x">>

\* The texts between the lines that consist of the separator token alone,
\* in any letter case: cur is the text gathered since the last such line.
RECURSIVE StandalonePieces(_, _)
StandalonePieces(lines, cur) ==
    IF Len(lines) = 0 THEN <<Join(cur, "\n")>>
    ELSE IF Lower(Strip(Head(lines))) = "go"
         THEN <<Join(cur, "\n")>> \o StandalonePieces(Tail(lines), <<>>)
         ELSE StandalonePieces(Tail(lines), Append(cur, Head(lines)))

\* C13 (as claimed): within the budget, the units are the trimmed non-empty
\* texts between the lines that consist of go, GO or Go alone; the letters go
\* inside a word or inside a line with other content split nothing.
C13_SplitsAtStandaloneSeparatorLines ==
    (pc = "chunker_returned" /\ max_chunk_size = DefaultMaxChunkSize) =>
        chunks = Statements(StandalonePieces(Split(sql_content, "\n"), <<>>))

\* C14 (as claimed): a statement over the budget that holds no separator
\* token, no procedure-definition keyword and no block-begin keyword is
\* returned as one unit, unchanged.
C14_OversizedPieceEmittedUnchanged ==
    (/\ pc = "chunker_returned"
     /\ Find(sql_content, "go", 1) = 0
     /\ ~HasMarker(sql_content)
     /\ Len(Strip(sql_content)) > max_chunk_size) =>
        chunks = <<Strip(sql_content)>>

-----------------------------------------------------------------------------
(* C15, C16: the units of the chunkers *)

\* A content that is not empty after trimming.
NonBlankContent(content) ==
    \E k \in 1..Len(content) : Strip(content[k].text) # ""

IsBodyPart(p) ==
    ext_chunks[p].type = "body" /\ ext_chunks[p].chunk_index >= 0

\* The position of the header that precedes unit p, 0 if there is none.
HeaderBefore(p) ==
    IF \E h \in 1..(p - 1) : ext_chunks[h].type = "header"
    THEN CHOOSE h \in 1..(p - 1) :
             /\ ext_chunks[h].type = "header"
             /\ \A j \in (h + 1)..(p - 1) : ext_chunks[j].type # "header"
    ELSE 0

\* The body parts of the procedure whose header is at position h.
BodyPartsOf(h) ==
    {p \in (h + 1)..Len(ext_chunks) : IsBodyPart(p) /\ HeaderBefore(p) = h}

\* C16 (as claimed): in the returned list the body parts of a procedure
\* carry the sequence values 0, 1, ... in order, each once, and total_chunks
\* is the number of those parts in the list.
C16_BodySequenceContiguous ==
    ext_pc = "chunker_returned" =>
        \A p \in 1..Len(ext_chunks) :
            IsBodyPart(p) =>
                LET h == HeaderBefore(p)
                IN  /\ h # 0
                    /\ ext_chunks[p].chunk_index = p - h - 1
                    /\ ext_chunks[p].total_chunks = Cardinality(BodyPartsOf(h))

-----------------------------------------------------------------------------
(* The translation path: SQLConverter.convert_sql, _convert_sql_parallel,   *)
(* _convert_sql_chunk                                                       *)

\* ThreadPoolExecutor(max_workers=5)
max_workers == 5

supported_db_types ==
    {"SYBASE", "MYSQL", "POSTGRESQL", "ORACLE", "SQLSERVER", "DB2"}

\* _validate_db_type: TRUE, or a ValueError (FALSE here).
validate_db_type(db_type) == db_type \in supported_db_types

\* The three characters that open and close a code fence.  The grave accent
\* cannot be written in a TLA+ string; the apostrophe stands for it.
Fence == "'''"

\* converted = response.choices[0].message.content.strip()
\* return converted.replace(fence + 'sql', '').replace(fence, '').strip()
CleanResponse(content) ==
    Strip(Replace(Replace(Strip(content), Fence \o "sql", ""), Fence, ""))

\* What one chat.completions.create call can do: raise an error, or return a
\* response with a message content.  The errors are the provider's retryable
\* ones: rate limit, timeout, transient API error; within one run the
\* provider fails in one of these ways (api_error).
ApiErrors == {"RateLimitError", "APITimeoutError", "APIError"}

ResponseContents ==
    {"SELECT 1", Fence \o "sql\nSELECT 2\n" \o Fence, Fence \o "sql\n" \o Fence}

ApiOutcomes ==
    {<<"raise", api_error>>} \cup {<<"content", c>> : c \in ResponseContents}

\* The value _convert_sql_chunk returns for the outcome of its API call:
\* the cleaned content, or None from the except branch.
CleanedContent == [c \in ResponseContents |-> CleanResponse(c)]

ChunkResult(outcome) ==
    IF outcome[1] = "content" THEN Str(CleanedContent[outcome[2]]) ELSE None

\* The error the except branch of _convert_sql_chunk printed, "" if none.
ChunkError(outcome) == IF outcome[1] = "raise" THEN outcome[2] ELSE ""

NewTask ==
    [state |-> "created", result |-> <<"unset">>, calls |-> 0, error |-> "",
     request |-> ""]

TaskIds == 1..Len(tasks)
TasksIn(st) == {i \in TaskIds : tasks[i].state = st}

\* The API calls that are executing in a worker thread.
InFlight == TasksIn("running")

\* A variant of CompleteCall that wraps the call in a bounded retry: a failed
\* call is submitted again until three calls were made.
CompleteCallWithRetry(i, outcome) ==
    IF outcome[1] = "raise" /\ tasks[i].calls < 3
    THEN [tasks |-> [tasks EXCEPT ![i].state = "queued"],
          work_queue |-> Append(work_queue, i)]
    ELSE [tasks |-> [tasks EXCEPT ![i].state = "done",
                                  ![i].result = ChunkResult(outcome),
                                  ![i].error = ChunkError(outcome)],
          work_queue |-> work_queue]

\* _convert_sql_chunk after its await: whatever the call did, the task
\* returns (the content cleaned, or None from the except branch); nothing is
\* submitted again.
CompleteCall(i, outcome) ==
    [tasks |-> [tasks EXCEPT ![i].state = "done",
                             ![i].result = ChunkResult(outcome),
                             ![i].error = ChunkError(outcome)],
     work_queue |-> work_queue]

\* A variant of WorkerAvailable for an executor without a bound on its
\* threads.
WorkerAlwaysAvailable == TRUE

\* A worker thread of the executor is idle (or may still be started).
WorkerAvailable == Cardinality(InFlight) < max_workers

\* A variant of GatherDone that resumes the caller on the first finished task.
GatherFirstDone == \E i \in TaskIds : tasks[i].state = "done"

\* asyncio.gather(*tasks) resumes its caller when every task is done.
GatherDone == \A i \in TaskIds : tasks[i].state = "done"

\* A variant of GatherResults that lists the results last task first.
GatherResultsReversed ==
    [i \in TaskIds |-> tasks[Len(tasks) + 1 - i].result]

\* The list gather returns: the tasks' results in the order of its arguments.
GatherResults == [i \in TaskIds |-> tasks[i].result]

\* A variant of Truthy that tests "r is not None".
IsNotNone(r) == IsStr(r)

\* if r: a result that is neither None nor the empty string.
Truthy(r) == IsStr(r) /\ StrOf(r) # ""

\* converted = [r for r in results if r]
RECURSIVE FilterResults(_)
FilterResults(rs) ==
    IF Len(rs) = 0 THEN <<>>
    ELSE (IF Truthy(Head(rs)) THEN <<StrOf(Head(rs))>> ELSE <<>>)
             \o FilterResults(Tail(rs))

\* return "\n\nGO\n\n".join(converted) if converted else None
JoinConverted(converted) ==
    IF Len(converted) > 0 THEN Str(Join(converted, "\n\nGO\n\n")) ELSE None

-----------------------------------------------------------------------------
(* Bounded inputs of the translation path *)

\* The largest number of statements in a converted text.
MaxChunks == 6

\* n statements, each followed by a separator line.
RECURSIVE StatementsText(_)
StatementsText(n) ==
    IF n = 0 THEN "" ELSE "SELECT 1\ngo\n" \o StatementsText(n - 1)

ConvTexts == {StatementsText(n) : n \in 0..MaxChunks}

\* The configured dialects: a supported pair, and each side unsupported.
DbConfigs ==
    {<<"SYBASE", "POSTGRESQL">>, <<"INVALID_DB", "POSTGRESQL">>,
     <<"SYBASE", "INVALID_DB">>}

PromptTemplates == {None, Str("Convert {source_type} to {target_type}")}

-----------------------------------------------------------------------------
(* Spec: one call of SQLConverter.convert_sql *)

\* main passes the configured dialects as the arguments source_type and
\* target_type.
Init ==
    /\ ExtIdle
    /\ MainIdle
    /\ \E cfg \in DbConfigs :
          /\ source_db_type = cfg[1]
          /\ target_db_type = cfg[2]
    /\ source_type = Str(source_db_type)
    /\ target_type = Str(target_db_type)
    /\ prompt_template \in PromptTemplates
    /\ api_error \in ApiErrors
    /\ sql_content \in ConvTexts
    /\ max_chunk_size = DefaultMaxChunkSize
    /\ chunks = <<>>
    /\ pc = "convert_sql"
    /\ tasks = <<>>
    /\ work_queue = <<>>
    /\ results = <<>>
    /\ converted_sql = <<"unset">>

\* convert_sql up to its await: without a prompt template it returns None;
\* otherwise it calls _convert_sql_parallel, which splits the text, creates
\* one task per chunk and awaits gather.
ConvertSql ==
    /\ pc = "convert_sql"
    /\ IF ~Truthy(prompt_template)
       THEN /\ converted_sql' = None
            /\ pc' = "returned"
            /\ UNCHANGED <<chunks, tasks>>
       ELSE /\ chunks' = split_sql_into_chunks(sql_content, max_chunk_size)
            /\ tasks' = [i \in 1..Len(chunks') |-> NewTask]
            /\ converted_sql' = converted_sql
            /\ pc' = "gather"
    /\ UNCHANGED <<source_type, target_type>>
    /\ UNCHANGED <<source_db_type, target_db_type, prompt_template, api_error,
                   sql_content, max_chunk_size, work_queue, results>>
    /\ UNCHANGED ext_vars
    /\ UNCHANGED main_vars

\* A variant of RequestDialect that takes the argument when one is given,
\* as convert_sql does for the line it prints: source_type or
\* self.source_db_type.
ArgumentOrConfigured(argument, configured) ==
    IF Truthy(argument) THEN StrOf(argument) ELSE configured

\* The dialect _convert_sql_chunk validates and names in its request:
\* self.source_db_type, self.target_db_type.  convert_sql hands its
\* arguments neither to _convert_sql_parallel nor to _convert_sql_chunk.
RequestDialect(argument, configured) == configured

\* The content of the user message of a request.
UserContent(source, target, chunk) ==
    "Convert this " \o source \o " SQL to " \o target \o ":\n\n" \o chunk

\* The event loop runs the tasks in the order they were created.  Task i runs
\* _convert_sql_chunk up to its await: a ValueError of the validation is
\* caught and None returned; otherwise the API call is submitted to the
\* executor.
TaskStart(i) ==
    /\ pc = "gather"
    /\ tasks[i].state = "created"
    /\ \A j \in 1..(i - 1) : tasks[j].state # "created"
    /\ IF /\ validate_db_type(RequestDialect(source_type, source_db_type))
          /\ validate_db_type(RequestDialect(target_type, target_db_type))
       THEN /\ tasks' =
                   [tasks EXCEPT
                      ![i].state = "queued",
                      ![i].request =
                          UserContent(
                              RequestDialect(source_type, source_db_type),
                              RequestDialect(target_type, target_db_type),
                              chunks[i])]
            /\ work_queue' = Append(work_queue, i)
       ELSE /\ tasks' = [tasks EXCEPT ![i].state = "done", ![i].result = None,
                                      ![i].error = "ValueError"]
            /\ work_queue' = work_queue
    /\ UNCHANGED <<source_type, target_type>>
    /\ UNCHANGED <<source_db_type, target_db_type, prompt_template, api_error,
                   sql_content, max_chunk_size, chunks, pc, results,
                   converted_sql>>
    /\ UNCHANGED ext_vars
    /\ UNCHANGED main_vars

\* A worker thread takes the oldest submitted call and starts it.
WorkerTake ==
    /\ Len(work_queue) > 0
    /\ WorkerAvailable
    /\ tasks' = [tasks EXCEPT ![Head(work_queue)].state = "running",
                              ![Head(work_queue)].calls = @ + 1]
    /\ work_queue' = Tail(work_queue)
    /\ UNCHANGED <<source_type, target_type>>
    /\ UNCHANGED <<source_db_type, target_db_type, prompt_template, api_error,
                   sql_content, max_chunk_size, chunks, pc, results,
                   converted_sql>>
    /\ UNCHANGED ext_vars
    /\ UNCHANGED main_vars

\* The API call of task i ends, in any order among the running ones, and the
\* task runs to its return.
ApiCallCompletes(i) ==
    /\ tasks[i].state = "running"
    /\ \E outcome \in ApiOutcomes :
          LET after == CompleteCall(i, outcome)
          IN  /\ tasks' = after.tasks
              /\ work_queue' = after.work_queue
    /\ UNCHANGED <<source_type, target_type>>
    /\ UNCHANGED <<source_db_type, target_db_type, prompt_template, api_error,
                   sql_content, max_chunk_size, chunks, pc, results,
                   converted_sql>>
    /\ UNCHANGED ext_vars
    /\ UNCHANGED main_vars

\* gather returns; _convert_sql_parallel filters and joins and returns, and
\* convert_sql returns that value.
GatherReturns ==
    /\ pc = "gather"
    /\ GatherDone
    /\ results' = GatherResults
    /\ converted_sql' = JoinConverted(FilterResults(results'))
    /\ pc' = "returned"
    /\ UNCHANGED <<source_type, target_type>>
    /\ UNCHANGED <<source_db_type, target_db_type, prompt_template, api_error,
                   sql_content, max_chunk_size, chunks, tasks, work_queue>>
    /\ UNCHANGED ext_vars
    /\ UNCHANGED main_vars

Next ==
    \/ ConvertSql
    \/ \E i \in TaskIds : TaskStart(i)
    \/ WorkerTake
    \/ \E i \in TaskIds : ApiCallCompletes(i)
    \/ GatherReturns

Spec == Init /\ [][Next]_vars

\* convert_sql called with any arguments: none, a supported dialect that is
\* not the configured one, an unsupported one; on texts of at most
\* MaxArgumentChunks statements.
MaxArgumentChunks == 2

ArgumentTypes == {None, Str("MYSQL"), Str("INVALID_DB")}

InitArguments ==
    /\ ExtIdle
    /\ MainIdle
    /\ \E cfg \in DbConfigs :
          /\ source_db_type = cfg[1]
          /\ target_db_type = cfg[2]
    /\ source_type \in ArgumentTypes
    /\ target_type \in ArgumentTypes
    /\ prompt_template \in PromptTemplates
    /\ api_error \in ApiErrors
    /\ sql_content \in {StatementsText(n) : n \in 0..MaxArgumentChunks}
    /\ max_chunk_size = DefaultMaxChunkSize
    /\ chunks = <<>>
    /\ pc = "convert_sql"
    /\ tasks = <<>>
    /\ work_queue = <<>>
    /\ results = <<>>
    /\ converted_sql = <<"unset">>

SpecArguments == InitArguments /\ [][Next]_vars

-----------------------------------------------------------------------------
(* C3 - C6, C9: the translation path *)

\* _convert_sql_parallel was entered and has returned.
ParallelReturned == pc = "returned" /\ Truthy(prompt_template)

DialectsValid ==
    validate_db_type(source_db_type) /\ validate_db_type(target_db_type)

\* The units whose call returned a non-empty text, and those that failed.
Succeeded(i) == IsStr(tasks[i].result) /\ StrOf(tasks[i].result) # ""
Failed(i) == tasks[i].state = "done" /\ tasks[i].result = None

\* C3: when _convert_sql_parallel returns, every one of its N units has
\* reached its terminal outcome (with valid dialects its model call was made,
\* whatever the siblings did) and exactly N outcomes were collected, the i-th
\* being unit i's.
C3_AllUnitsTerminalAndCollected ==
    ParallelReturned =>
        /\ Len(tasks) = Len(chunks)
        /\ Len(results) = Len(chunks)
        /\ \A i \in TaskIds :
              /\ tasks[i].state = "done"
              /\ DialectsValid => tasks[i].calls = 1
              /\ results[i] = tasks[i].result

\* C3 witness: a batch of at least three units has returned in which a unit
\* failed and later units succeeded.
C3_Witness ==
    /\ ParallelReturned
    /\ Len(chunks) >= 3
    /\ \E i, j \in TaskIds :
          i < j /\ Failed(i) /\ tasks[i].calls = 1 /\ Succeeded(j)

\* The texts of the successful units from unit i on, in unit order.
RECURSIVE SuccessTextsFrom(_)
SuccessTextsFrom(i) ==
    IF i > Len(tasks) THEN <<>>
    ELSE (IF Succeeded(i) THEN <<StrOf(tasks[i].result)>> ELSE <<>>)
             \o SuccessTextsFrom(i + 1)

\* C4: the text _convert_sql_parallel returns is the results of the
\* successful units, in unit order, joined by "\n\nGO\n\n", in every order of
\* completion of the calls.
C4_JoinedInUnitOrder ==
    (ParallelReturned /\ IsStr(converted_sql)) =>
        StrOf(converted_sql) = Join(SuccessTextsFrom(1), "\n\nGO\n\n")

\* C4 witness: a text was returned for a batch in which two units gave
\* different texts and a unit between them failed.
C4_Witness ==
    /\ ParallelReturned
    /\ IsStr(converted_sql)
    /\ \E i, j, k \in TaskIds :
          /\ i < j /\ j < k
          /\ Succeeded(i) /\ Failed(j) /\ Succeeded(k)
          /\ tasks[i].result # tasks[k].result

\* C5: convert_sql never returns the empty string, and returns None when
\* every unit of the batch failed.
C5_NoneOnTotalFailure ==
    pc = "returned" =>
        /\ converted_sql # Str("")
        /\ (\A i \in TaskIds : Failed(i)) => converted_sql = None

\* C5 witness: a batch of at least two units has returned, every unit's
\* model call having failed.
C5_Witness ==
    /\ ParallelReturned
    /\ Len(chunks) >= 2
    /\ \A i \in TaskIds : Failed(i) /\ tasks[i].calls = 1
    /\ converted_sql = None

\* C6: at most max_workers model calls are in flight.
C6_AtMostFiveInFlight == Cardinality(InFlight) <= max_workers

\* C6 witness: max_workers calls are in flight while another waits.
C6_Witness ==
    /\ Cardinality(InFlight) = max_workers
    /\ Len(work_queue) > 0

C21_InvalidDialectAbortsBeforeDispatch ==
    ~DialectsValid =>
        /\ tasks = <<>>
        /\ work_queue = <<>>

-----------------------------------------------------------------------------
(* The extraction path: SQLExtractor.extract_from_chunk *)

max_retries == 3
retry_delay == 2

\* A chunk of SQLExtractor._split_sql_into_chunks.  The keys chunk_index and
\* total_chunks are present only on the parts of a multi-part body; -1 stands
\* for an absent key.
Unit(type, proc_name, chunk_index, total_chunks) ==
    [type |-> type, proc_name |-> proc_name, chunk_index |-> chunk_index,
     total_chunks |-> total_chunks]

\* 'chunk_index' in chunk
HasChunkIndex(chunk) == chunk.chunk_index >= 0

\* What one attempt's model call can do, other than give an extraction.
ExtErrors ==
    {"timeout",            \* asyncio.wait_for ran out of its 30 seconds
     "rate_limit",         \* openai.RateLimitError
     "api_error",          \* openai.APIError (connection, server error)
     "context_length",     \* openai.BadRequestError, maximum context length
     "no_choices",         \* a completion without choices
     "no_tool_calls",      \* a message without tool calls
     "refusal",            \* a message without tool calls that apologizes
     "invalid_arguments"}  \* tool-call arguments that do not validate

\* The class of the exception an attempt raises for each of them.
RaisedClass(outcome) ==
    CASE outcome = "timeout" -> "TimeoutError"
      [] outcome = "rate_limit" -> "RateLimitError"
      [] outcome = "api_error" -> "APIError"
      [] outcome = "context_length" -> "BadRequestError"
      [] OTHER -> "ValueError"

\* The classes an exception of a class is an instance of: in the openai
\* package RateLimitError and BadRequestError derive from APIStatusError,
\* which derives from APIError.
Superclasses(cls) ==
    CASE cls = "RateLimitError" -> {"RateLimitError", "APIError", "Exception"}
      [] cls = "BadRequestError" -> {"BadRequestError", "APIError", "Exception"}
      [] cls = "APIError" -> {"APIError", "Exception"}
      [] OTHER -> {cls, "Exception"}

\* The except clauses of the outer try, in the order they are written.
ExceptClauses == <<"RateLimitError", "APIError", "BadRequestError", "Exception">>

\* The clause that catches an exception: the first one it is an instance of.
CatchingClause(cls) ==
    LET k == CHOOSE k \in 1..Len(ExceptClauses) :
                 /\ ExceptClauses[k] \in Superclasses(cls)
                 /\ \A j \in 1..(k - 1) : ExceptClauses[j] \notin Superclasses(cls)
    IN  ExceptClauses[k]

Retry(delay) == [do |-> "retry", delay |-> delay, error |-> ""]
Raise(error) == [do |-> "raise", delay |-> 0, error |-> error]

\* A variant of ShouldRetry that retries while attempt < max_retries.
ShouldRetryUpToMax(a) == a < max_retries

\* if attempt < max_retries - 1
ShouldRetry(a) == a < max_retries - 1

\* A variant of ClauseBody that waits the base delay after a rate-limit error
\* as well.
ClauseBodyFixedDelay(clause, a) ==
    CASE clause = "BadRequestError" ->
             Raise("Token limit exceeded or bad request")
      [] OTHER ->
             IF ShouldRetry(a) THEN Retry(retry_delay)
             ELSE Raise("Failed to process chunk after all retries")

\* The body of an except clause of the outer try, at attempt a.
ClauseBody(clause, a) ==
    CASE clause = "RateLimitError" ->
             IF ShouldRetry(a) THEN Retry((a + 1) * retry_delay)
             ELSE Raise("Rate limit exceeded after all retries")
      [] clause = "APIError" ->
             IF ShouldRetry(a) THEN Retry(retry_delay)
             ELSE Raise("OpenAI API error after all retries")
      [] clause = "BadRequestError" ->
             Raise("Token limit exceeded or bad request")
      [] OTHER ->
             IF ShouldRetry(a) THEN Retry(retry_delay)
             ELSE Raise("Failed to process chunk after all retries")

\* What extract_from_chunk does when the call of attempt a fails: the inner
\* except handles a timeout (and the TimeoutError it raises on the last
\* attempt reaches the outer clauses); every other exception goes to the
\* outer clauses.
OnError(outcome, a) ==
    IF outcome = "timeout" /\ ShouldRetry(a) THEN Retry(retry_delay)
    ELSE ClauseBody(CatchingClause(RaisedClass(outcome)), a)

\* The index of the first record of partial with that proc_name, 0 if none.
FirstMatch(partial, name) ==
    IF \E k \in 1..Len(partial) : partial[k].proc_name = name
    THEN CHOOSE k \in 1..Len(partial) :
             /\ partial[k].proc_name = name
             /\ \A j \in 1..(k - 1) : partial[j].proc_name # name
    ELSE 0

\* The end of a successful attempt: for a body chunk whose procedure has a
\* record in partial_results, the extraction takes that record's parameters,
\* and for a part of a multi-part body the record's description and tables
\* are set (part 0) or extended (later parts, which return None).  result is
\* the returned value: <<>> for None, <<extraction>> otherwise.  Tables are
\* kept as sets: list(set(...)) leaves their order open.
OnExtraction(chunk, extraction, partial) ==
    LET k == FirstMatch(partial, chunk.proc_name)
        with_params ==
            [extraction EXCEPT !.in_params = partial[k].in_params,
                               !.out_params = partial[k].out_params,
                               !.inout_params = partial[k].inout_params]
    IN  IF chunk.type = "body" /\ k # 0
        THEN IF HasChunkIndex(chunk)
             THEN IF chunk.chunk_index > 0
                  THEN [partial |->
                           [partial EXCEPT
                              ![k].description =
                                  @ \o "\n" \o extraction.description,
                              ![k].related_tables =
                                  @ \cup extraction.related_tables],
                        result |-> <<>>]
                  ELSE [partial |->
                           [partial EXCEPT
                              ![k].description = extraction.description,
                              ![k].related_tables = extraction.related_tables],
                        result |-> <<with_params>>]
             ELSE [partial |-> partial, result |-> <<with_params>>]
        ELSE [partial |-> partial, result |-> <<extraction>>]

-----------------------------------------------------------------------------
(* The extraction path: SQLExtractor.process_sql_file *)

\* if result: a header result goes to partial_results; the result of a full
\* chunk, of a single body or of the last part of a multi-part body goes to
\* final_results.
Collect(chunk, result, partial, final) ==
    IF Len(result) = 0 THEN [partial |-> partial, final |-> final]
    ELSE IF chunk.type = "header"
    THEN [partial |-> Append(partial, result[1]), final |-> final]
    ELSE IF chunk.type = "full"
            \/ (chunk.type = "body"
                /\ (~HasChunkIndex(chunk)
                    \/ chunk.chunk_index = chunk.total_chunks - 1))
    THEN [partial |-> partial, final |-> Append(final, result[1])]
    ELSE [partial |-> partial, final |-> final]

-----------------------------------------------------------------------------
(* Bounded inputs of the extraction path *)

\* The largest number of units in a file.
MaxUnits == 4

\* The procedure names the chunker found, by position in the file, and a
\* name the model may answer instead of the unit's.
ProcNames == <<"pa", "pb", "pc", "pd", "pe", "pf">>
WrongName == "zz"

\* The shapes the chunker gives a procedure, within room units: one full
\* chunk; a header alone (its body was empty); a header and a body; a header
\* and the n parts of a multi-part body.
ProcShapes(name, room) ==
    (IF room >= 1
     THEN {<<Unit("full", name, -1, -1)>>, <<Unit("header", name, -1, -1)>>}
     ELSE {})
    \cup (IF room >= 2
          THEN {<<Unit("header", name, -1, -1), Unit("body", name, -1, -1)>>}
          ELSE {})
    \cup {<<Unit("header", name, -1, -1)>>
              \o [k \in 1..n |-> Unit("body", name, k - 1, n)] :
          n \in 1..(room - 1)}

\* The files of procedures k, k+1, ... within room units.
RECURSIVE FilesFrom(_, _)
FilesFrom(k, room) ==
    {<<>>} \cup UNION {{p \o f : f \in FilesFrom(k + 1, room - Len(p))} :
                       p \in ProcShapes(ProcNames[k], room)}

\* What the model answers for a chunk, under the name it gives the
\* procedure: a header gives the parameters and leaves the rest empty, a
\* body part gives the description and tables of its part, a full chunk all.
BodyDescriptions == <<"x", "y", "z", "w", "v", "u">>
TableNames == <<"t1", "t2", "t3", "t4", "t5", "t6", "t7">>

ModelAnswer(chunk, name) ==
    LET part == IF HasChunkIndex(chunk) THEN chunk.chunk_index + 1 ELSE 1
    IN  CASE chunk.type = "header" ->
                 [proc_name |-> name, description |-> "",
                  in_params |-> <<"a", "b">>, out_params |-> <<"o">>,
                  inout_params |-> <<>>, related_tables |-> {}]
          [] chunk.type = "full" ->
                 [proc_name |-> name, description |-> "x",
                  in_params |-> <<"a", "b">>, out_params |-> <<"o">>,
                  inout_params |-> <<>>, related_tables |-> {"t1"}]
          [] OTHER ->
                 [proc_name |-> name, description |-> BodyDescriptions[part],
                  in_params |-> <<>>, out_params |-> <<>>,
                  inout_params |-> <<>>,
                  related_tables |-> {TableNames[part], TableNames[part + 1]}]

ModelAnswers(chunk) ==
    {ModelAnswer(chunk, name) : name \in {chunk.proc_name, WrongName}}

-----------------------------------------------------------------------------
(* SpecExtract: one call of SQLExtractor.process_sql_file *)

\* A variant of OnUnitFailure that gives the unit up and goes on with the
\* next one, returning final_results after the last.
OnUnitFailureSkipsUnit(calls) ==
    IF ext_i = Len(ext_chunks)
    THEN [ext_pc |-> "returned", ext_i |-> ext_i, attempt |-> attempt,
          unit_calls |-> calls, ext_returned |-> final_results]
    ELSE [ext_pc |-> "call", ext_i |-> ext_i + 1, attempt |-> 0,
          unit_calls |-> 0, ext_returned |-> ext_returned]

\* extract_from_chunk raises after calls model calls: the exception leaves
\* the for loop of process_sql_file, whose except clause returns [].
OnUnitFailure(calls) ==
    [ext_pc |-> "returned", ext_i |-> ext_i, attempt |-> attempt,
     unit_calls |-> calls, ext_returned |-> <<>>]

\* SQLExtraction.model_validate_json(result) makes a new object; oid stands
\* for its identity, given by the call and the unit that made it.
NewObject(answer, id) == answer @@ [oid |-> id]

\* Lists hold references.  When the objects of the list before have become
\* the records of after (the same objects at the same places), a list shows
\* each of these objects it holds as it is after.
SeenThrough(list, before, after) ==
    [j \in 1..Len(list) |->
        IF \E k \in 1..Len(before) : before[k].oid = list[j].oid
        THEN after[CHOOSE k \in 1..Len(before) : before[k].oid = list[j].oid]
        ELSE list[j]]

\* A variant of NewPartialResults that keeps the list of the call before.
KeptPartialResults(partial) == partial

\* self.partial_results = []
NewPartialResults(partial) == <<>>

\* A variant of NextAttempt that takes the same attempt again.
SameAttempt(a) == a

\* for attempt in range(max_retries): the value after a (the range is
\* exhausted when it reaches max_retries).
NextAttempt(a) == a + 1

\* A variant of NextIndex that passes over a chunk when two or more remain.
NextIndexSkipping(i) == IF i + 2 <= Len(ext_chunks) THEN i + 2 ELSE i + 1

\* for i, chunk in enumerate(chunks): the chunk taken after chunk i.
NextIndex(i) == i + 1

InitExtract ==
    /\ ConvIdle
    /\ MainIdle
    /\ file_readable \in BOOLEAN
    /\ ext_chunks \in FilesFrom(1, MaxUnits)
    /\ ext_i = 0
    /\ attempt = 0
    /\ ext_pc = "process_sql_file"
    /\ partial_results = <<>>
    /\ final_results = <<>>
    /\ ext_returned = <<"unset">>
    /\ unit_answers = <<>>
    /\ unit_calls = 0
    /\ last_outcome = ""
    /\ last_sleep = 0
    /\ raised = ""
    /\ ext_splits = <<>>
    /\ file_no = 1
    /\ units_before = 0
    /\ seeded_in = <<>>
    /\ earlier_returned = <<>>
    /\ abandoned_calls = 0

\* process_sql_file up to the first await: the file is read and split, the
\* two lists are emptied and the loop is entered.  An unreadable file is
\* caught by the except clause before partial_results is assigned, and an
\* empty list of chunks ends the loop.
ProcessSqlFile ==
    /\ ext_pc = "process_sql_file"
    /\ partial_results' = IF file_readable
                          THEN NewPartialResults(partial_results)
                          ELSE partial_results
    /\ seeded_in' = IF file_readable THEN NewPartialResults(seeded_in)
                    ELSE seeded_in
    /\ final_results' = <<>>
    /\ IF ~file_readable
       THEN /\ ext_returned' = <<>>
            /\ ext_pc' = "returned"
            /\ ext_i' = ext_i
       ELSE IF Len(ext_chunks) = 0
       THEN /\ ext_returned' = final_results'
            /\ ext_pc' = "returned"
            /\ ext_i' = ext_i
       ELSE /\ ext_returned' = ext_returned
            /\ ext_pc' = "call"
            /\ ext_i' = 1
    /\ UNCHANGED abandoned_calls
    /\ UNCHANGED <<file_readable, ext_chunks, attempt, unit_answers,
                   unit_calls, last_outcome, last_sleep, raised, ext_splits,
                   file_no, units_before, earlier_returned>>
    /\ UNCHANGED conv_vars
    /\ UNCHANGED main_vars

\* The model call of the current attempt fails.  extract_from_chunk sleeps
\* before the next attempt, or raises; a unit that failed for good is noted
\* in unit_answers as <<>>.
\* The largest number of calls given up and still running: a further call
\* times out only after one of them has ended.
MaxAbandoned == 1

\* The calls left running when a call ends for extract_from_chunk: a call
\* that answered or raised has ended; after a timeout asyncio.wait_for
\* cancels the future of asyncio.to_thread, and the thread goes on with
\* chat.completions.create until the request ends by itself.
AfterCall(outcome, abandoned) ==
    IF outcome = "timeout" THEN abandoned + 1 ELSE abandoned

\* A variant of PartialAfterFailedAttempt in which the attempt merges an
\* answer into the owner's record before it fails.
PartialMergedByFailedAttempt(chunk, partial) ==
    OnExtraction(chunk,
                 NewObject(ModelAnswer(chunk, chunk.proc_name),
                           <<file_no, ext_i>>),
                 partial).partial

\* partial_results after an attempt that failed: the call, the checks of the
\* completion and model_validate_json come before the lines that change a
\* record, and nothing can fail between these lines and the return.
PartialAfterFailedAttempt(chunk, partial) == partial

CallFails ==
    /\ ext_pc = "call"
    /\ partial_results' =
           PartialAfterFailedAttempt(ext_chunks[ext_i], partial_results)
    /\ \E outcome \in ExtErrors :
          LET todo == OnError(outcome, attempt)
              after == OnUnitFailure(unit_calls + 1)
          IN  /\ AfterCall(outcome, abandoned_calls) <= MaxAbandoned
              /\ last_outcome' = outcome
              /\ abandoned_calls' = AfterCall(outcome, abandoned_calls)
              /\ IF todo.do = "retry"
                 THEN /\ ext_pc' = "sleep"
                      /\ last_sleep' = todo.delay
                      /\ unit_calls' = unit_calls + 1
                      /\ UNCHANGED <<raised, ext_returned, ext_i, attempt,
                                     unit_answers>>
                 ELSE /\ raised' = todo.error
                      /\ unit_answers' = Append(unit_answers, <<>>)
                      /\ ext_pc' = after.ext_pc
                      /\ ext_i' = after.ext_i
                      /\ attempt' = after.attempt
                      /\ unit_calls' = after.unit_calls
                      /\ ext_returned' = after.ext_returned
                      /\ last_sleep' = last_sleep
    /\ UNCHANGED <<file_readable, ext_chunks, final_results, ext_splits,
                   file_no, units_before, seeded_in, earlier_returned>>
    /\ UNCHANGED conv_vars
    /\ UNCHANGED main_vars

\* asyncio.sleep ends and the for loop takes the next attempt; past the last
\* attempt the loop ends and the final raise is reached.
Wake ==
    /\ ext_pc = "sleep"
    /\ IF NextAttempt(attempt) < max_retries
       THEN /\ ext_pc' = "call"
            /\ attempt' = NextAttempt(attempt)
            /\ UNCHANGED <<raised, ext_returned, ext_i, unit_calls,
                           unit_answers>>
       ELSE LET after == OnUnitFailure(unit_calls)
            IN  /\ raised' =
                       "Failed to process chunk after exhausting all retries"
                /\ unit_answers' = Append(unit_answers, <<>>)
                /\ ext_pc' = after.ext_pc
                /\ ext_i' = after.ext_i
                /\ attempt' = after.attempt
                /\ unit_calls' = after.unit_calls
                /\ ext_returned' = after.ext_returned
    /\ UNCHANGED abandoned_calls
    /\ UNCHANGED <<file_readable, ext_chunks, partial_results, final_results,
                   last_outcome, last_sleep, ext_splits, file_no,
                   units_before, seeded_in, earlier_returned>>
    /\ UNCHANGED conv_vars
    /\ UNCHANGED main_vars

\* The model call of the current attempt gives an extraction:
\* extract_from_chunk returns, process_sql_file collects the result and goes
\* to the next chunk, or returns final_results after the last one.
CallSucceeds ==
    /\ ext_pc = "call"
    /\ \E answer \in ModelAnswers(ext_chunks[ext_i]) :
          LET chunk == ext_chunks[ext_i]
              extraction == NewObject(answer, <<file_no, ext_i>>)
              got == OnExtraction(chunk, extraction, partial_results)
              kept == Collect(chunk, got.result, got.partial,
                              SeenThrough(final_results, partial_results,
                                          got.partial))
          IN  /\ partial_results' = kept.partial
              /\ final_results' = kept.final
              /\ seeded_in' = IF Len(kept.partial) > Len(partial_results)
                              THEN Append(seeded_in, file_no)
                              ELSE seeded_in
              /\ earlier_returned' =
                     [n \in 1..Len(earlier_returned) |->
                         SeenThrough(earlier_returned[n], partial_results,
                                     got.partial)]
              /\ unit_answers' = Append(unit_answers, <<extraction>>)
              /\ last_outcome' = "extraction"
              /\ IF ext_i = Len(ext_chunks)
                 THEN /\ ext_returned' = kept.final
                      /\ ext_pc' = "returned"
                      /\ unit_calls' = unit_calls + 1
                      /\ UNCHANGED <<ext_i, attempt>>
                 ELSE /\ ext_i' = NextIndex(ext_i)
                      /\ attempt' = 0
                      /\ unit_calls' = 0
                      /\ UNCHANGED <<ext_returned, ext_pc>>
    /\ UNCHANGED abandoned_calls
    /\ UNCHANGED <<file_readable, ext_chunks, last_sleep, raised, ext_splits,
                   file_no, units_before>>
    /\ UNCHANGED conv_vars
    /\ UNCHANGED main_vars

\* The request of a call that was given up ends and its thread with it;
\* nobody takes its result.
AbandonedCallEnds ==
    /\ abandoned_calls > 0
    /\ abandoned_calls' = abandoned_calls - 1
    /\ UNCHANGED <<file_readable, ext_chunks, ext_i, attempt, ext_pc,
                   partial_results, final_results, ext_returned, unit_answers,
                   unit_calls, last_outcome, last_sleep, raised, ext_splits,
                   file_no, units_before, seeded_in, earlier_returned>>
    /\ UNCHANGED conv_vars
    /\ UNCHANGED main_vars

NextExtract ==
    \/ ProcessSqlFile
    \/ CallFails
    \/ Wake
    \/ CallSucceeds
    \/ AbandonedCallEnds

SpecExtract == InitExtract /\ [][NextExtract]_vars

\* The largest number of units in a file, where a specification has
\* fairness or several calls.
MaxFileUnits == 2

\* The same for files of at most MaxFileUnits units, with progress: a model
\* call ends, by an answer, an error or the 30 seconds of asyncio.wait_for,
\* and asyncio.sleep returns.

InitExtractFair == InitExtract /\ Len(ext_chunks) <= MaxFileUnits

SpecExtractFair ==
    InitExtractFair /\ [][NextExtract]_vars /\ WF_vars(NextExtract)


-----------------------------------------------------------------------------
(* SpecExtractFiles: process_sql_file called again and again on one         *)
(* SQLExtractor                                                             *)

\* The largest number of calls, and of units in their files together.
MaxFiles == 2
MaxUnitsInAll == 3

\* The caller takes the list returned and calls process_sql_file for the
\* next file.  The extractor keeps its partial_results; what belonged to the
\* call before is gone.
NextFile ==
    /\ ext_pc = "returned"
    /\ file_no < MaxFiles
    /\ earlier_returned' = Append(earlier_returned, ext_returned)
    /\ file_no' = file_no + 1
    /\ units_before' = units_before + Len(ext_chunks)
    /\ ext_chunks' \in FilesFrom(1, MaxUnitsInAll - units_before')
    /\ file_readable' \in BOOLEAN
    /\ ext_pc' = "process_sql_file"
    /\ ext_i' = 0
    /\ attempt' = 0
    /\ final_results' = <<>>
    /\ ext_returned' = <<"unset">>
    /\ unit_answers' = <<>>
    /\ unit_calls' = 0
    /\ last_outcome' = ""
    /\ last_sleep' = 0
    /\ raised' = ""
    /\ UNCHANGED <<partial_results, seeded_in, ext_splits, abandoned_calls>>
    /\ UNCHANGED conv_vars
    /\ UNCHANGED main_vars

NextExtractFiles == NextExtract \/ NextFile

InitExtractFiles == InitExtract /\ Len(ext_chunks) <= MaxUnitsInAll

SpecExtractFiles == InitExtractFiles /\ [][NextExtractFiles]_vars

-----------------------------------------------------------------------------
(* C1, C2, C7, C8: the extraction path *)

\* The errors the retry is meant for, and those that are final at once.
RetryableErrors == {"timeout", "rate_limit", "api_error"}
TerminalErrors ==
    {"context_length", "no_choices", "no_tool_calls", "refusal",
     "invalid_arguments"}

InList(r, list) == \E j \in 1..Len(list) : list[j] = r

\* C1 (as claimed): a unit that fails for good does not stop the file: every
\* record collected from the units that succeeded is in the returned list.
C1_FailureIsContained ==
    (ext_pc = "returned" /\ file_readable) =>
        \A k \in 1..Len(final_results) : InList(final_results[k], ext_returned)

\* Units h, h+1, h+2 are the header and the two body parts of one procedure;
\* the header's call gave the procedure's name and in_params [a, b], the
\* body calls gave the descriptions "x" and then "y".
C2_Scenario(h) ==
    /\ h + 2 <= Len(ext_chunks)
    /\ Len(unit_answers) >= h + 2
    /\ ext_chunks[h] = Unit("header", ext_chunks[h].proc_name, -1, -1)
    /\ ext_chunks[h + 1] = Unit("body", ext_chunks[h].proc_name, 0, 2)
    /\ ext_chunks[h + 2] = Unit("body", ext_chunks[h].proc_name, 1, 2)
    /\ unit_answers[h][1].proc_name = ext_chunks[h].proc_name
    /\ unit_answers[h][1].in_params = <<"a", "b">>
    /\ unit_answers[h + 1][1].description = "x"
    /\ unit_answers[h + 2][1].description = "y"

\* C2 (as claimed): when process_sql_file returns without any unit having
\* failed, a procedure split into a header and two body parts that answered
\* in_params [a, b], "x" and "y" has a record with in_params [a, b] and
\* description "x\ny" in the returned list.
C2_AccumulatedRecordReturned ==
    (ext_pc = "returned" /\ file_readable /\ raised = "") =>
        \A h \in 1..Len(ext_chunks) :
            C2_Scenario(h) =>
                \E j \in 1..Len(ext_returned) :
                    /\ ext_returned[j].in_params = <<"a", "b">>
                    /\ ext_returned[j].description = "x\ny"

\* C7 (as claimed): after a terminal error of a model call extract_from_chunk
\* has failed for good: it neither sleeps nor calls the model again.
C7_TerminalErrorFailsAtOnce ==
    last_outcome \in TerminalErrors => (ext_pc = "returned" /\ raised # "")

\* C8 (as claimed): a unit fails for good on a timeout, rate-limit or
\* transient provider error only at attempt index max_retries.
C8_FailsOnlyAtAttemptThree ==
    (raised # "" /\ last_outcome \in RetryableErrors) => attempt = max_retries

\* C8 (amended): attempts are counted from 0; after a timeout, rate-limit or
\* transient provider error extract_from_chunk waits for a retry only at
\* attempt index 0 or 1, and fails for good on such an error exactly at
\* attempt index 2 = max_retries - 1, the unit's third call.
C8_FailsAtAttemptTwo ==
    /\ (ext_pc = "sleep" /\ last_outcome \in RetryableErrors) =>
           (attempt < max_retries - 1 /\ unit_calls = attempt + 1)
    /\ (raised # "" /\ last_outcome \in RetryableErrors) =>
           (attempt = max_retries - 1 /\ unit_calls = max_retries)

\* C8 witness: a unit has failed for good on a retryable error at attempt
\* index 2, after three calls, the units before it having succeeded.
C8_Witness ==
    /\ raised # ""
    /\ last_outcome \in RetryableErrors
    /\ attempt = max_retries - 1
    /\ unit_calls = max_retries
    /\ ext_i >= 2

-----------------------------------------------------------------------------
(* C17 - C20: headers, bodies and the order of the units *)

\* Unit h is a header and unit h + 1 the sole body unit of its procedure.
HeaderWithSoleBody(h) ==
    /\ h + 1 <= Len(ext_chunks)
    /\ ext_chunks[h].type = "header"
    /\ ext_chunks[h + 1].type = "body"
    /\ ext_chunks[h + 1].proc_name = ext_chunks[h].proc_name
    /\ (h + 2 <= Len(ext_chunks) => ext_chunks[h + 2].type # "body")

\* Unit h has failed for good.
FailedForGood(h) == Len(unit_answers) >= h /\ unit_answers[h] = <<>>

\* C17: when the header of a procedure with a sole body unit has failed for
\* good, the list process_sql_file returns holds no record of that
\* procedure.
C17_NoRecordWhenHeaderFails ==
    ext_pc = "returned" =>
        \A h \in 1..Len(ext_chunks) :
            (HeaderWithSoleBody(h) /\ FailedForGood(h)) =>
                \A j \in 1..Len(ext_returned) :
                    ext_returned[j].proc_name # ext_chunks[h].proc_name

\* C17 witness: process_sql_file has returned after the header of a
\* procedure with a sole body unit failed for good, a procedure before it
\* having given its record.
C17_Witness ==
    /\ ext_pc = "returned"
    /\ Len(final_results) >= 1
    /\ \E h \in 2..Len(ext_chunks) : HeaderWithSoleBody(h) /\ FailedForGood(h)

\* The current unit is a body unit whose owner has no record in
\* partial_results, and this step is its successful model call.
UnseededBodySucceeds ==
    /\ ext_pc = "call"
    /\ ext_chunks[ext_i].type = "body"
    /\ FirstMatch(partial_results, ext_chunks[ext_i].proc_name) = 0
    /\ last_outcome' = "extraction"
    /\ Len(unit_answers') = Len(unit_answers) + 1

\* C18 (as claimed): a successful body outcome whose owner has no record in
\* partial_results adds no record to final_results and raises no error.
C18_UnseededBodyDropped ==
    [][UnseededBodySucceeds =>
           (final_results' = final_results /\ raised' = "")]_vars

\* This step appends to final_results the record of a body unit whose
\* header, unit h, had given an extraction.
BodyRecordAppended(h) ==
    /\ ext_pc = "call"
    /\ ext_chunks[ext_i].type = "body"
    /\ h = HeaderBefore(ext_i)
    /\ h # 0
    /\ ext_chunks[h].proc_name = ext_chunks[ext_i].proc_name
    /\ Len(unit_answers[h]) = 1
    /\ Len(final_results') = Len(final_results) + 1

\* C19 (as claimed): the record a body unit adds to final_results carries
\* the in, out and inout parameters its header's call gave.
C19_HeaderParamsCarried ==
    [][\A h \in 1..Len(ext_chunks) :
           BodyRecordAppended(h) =>
               LET r == final_results'[Len(final_results')]
                   header == unit_answers[h][1]
               IN  /\ r.in_params = header.in_params
                   /\ r.out_params = header.out_params
                   /\ r.inout_params = header.inout_params]_vars

\* C20: while a unit is being called or waits for a retry, every unit before
\* it in chunker order has reached its terminal outcome and no unit after it
\* was started; so the header of a body unit is resolved before the body
\* unit's first call.
C20_UnitsOneAfterAnother ==
    ext_pc \in {"call", "sleep"} =>
        /\ ext_i \in 1..Len(ext_chunks)
        /\ Len(unit_answers) = ext_i - 1
        /\ ext_chunks[ext_i].type = "body" =>
               /\ HeaderBefore(ext_i) \in 1..Len(unit_answers)
               /\ ext_chunks[HeaderBefore(ext_i)].proc_name
                      = ext_chunks[ext_i].proc_name

\* C20 witness: the second body part of a procedure is in its third
\* attempt, its header and first part resolved.
C20_Witness ==
    /\ ext_pc = "call"
    /\ attempt = max_retries - 1
    /\ ext_i >= 3
    /\ ext_chunks[ext_i].type = "body"
    /\ ext_chunks[ext_i].chunk_index = 1
    /\ Len(unit_answers) = ext_i - 1
-----------------------------------------------------------------------------
(* C26, C27: the attempts of one unit *)

\* Unit i has reached one of its two terminal states: Succeeded (its
\* extraction is noted) or FailedPermanently (<<>> is noted).
UnitTerminated(i) == Len(unit_answers) >= i

\* C26: whatever the outcomes of the model calls, extract_from_chunk makes at
\* most max_retries calls for a unit, and every unit whose processing has
\* begun ends as Succeeded or FailedPermanently.
C26_UnitTerminatesWithinMaxRetries ==
    /\ [](unit_calls <= max_retries)
    /\ \A i \in 1..MaxUnits :
           (ext_pc = "call" /\ ext_i = i) ~> UnitTerminated(i)

\* C26 witness: a unit has failed for good after timeout, rate limit and a
\* last call whose answer carried no tool call.
C26_Witness ==
    /\ ext_pc = "returned"
    /\ raised = "Failed to process chunk after all retries"
    /\ last_outcome = "no_tool_calls"
    /\ unit_calls = max_retries
    /\ UnitTerminated(ext_i)
    /\ unit_answers[ext_i] = <<>>

\* C27: the wait before the retry after a timeout is retry_delay at every
\* attempt, and the wait after a rate-limit error at attempt a is
\* (a + 1) * retry_delay.
C27_BackoffDelays ==
    ext_pc = "sleep" =>
        /\ last_outcome = "timeout" => last_sleep = retry_delay
        /\ last_outcome = "rate_limit" =>
               last_sleep = (attempt + 1) * retry_delay

\* C27 witness: extract_from_chunk waits twice the base delay after a
\* rate-limit error at attempt 1.
C27_Witness ==
    /\ ext_pc = "sleep"
    /\ last_outcome = "rate_limit"
    /\ attempt = 1
    /\ last_sleep = 2 * retry_delay
    /\ last_sleep > retry_delay

-----------------------------------------------------------------------------
(* C25: a line-oriented mode of the translation chunker *)

\* C25 (as claimed): the chunker can be set to work by lines.  The code has
\* one mode, whatever max_chunk_size is; were that mode the line-oriented
\* one, a unit would be a run of whole lines that is within the budget
\* unless it is a single line, and no unit would hold a line that consists
\* of the separator token, since such a line always ends the running unit.
C25_LineOrientedModeOffered ==
    pc = "chunker_returned" =>
        \A i \in 1..Len(chunks) :
            LET lines == Split(chunks[i], "\n")
            IN  /\ Len(chunks[i]) > max_chunk_size => Len(lines) = 1
                /\ \A k \in 1..Len(lines) : Lower(Strip(lines[k])) # "go"

-----------------------------------------------------------------------------
(* C28: header and body of a procedure over the budget *)

\* The lines that begin with the marker as or begin, in any letter case,
\* after their leading blanks.
BeginsWithMarker ==
    [line \in AllLines |->
        LET t == Lower(LStrip(line.text))
        IN  StartsWith(t, "as") \/ StartsWith(t, "begin")]

\* The index of the first such line of a scope, Len + 1 if it has none.
MarkerLine(scope) ==
    LET marked == {k \in 1..Len(scope) : BeginsWithMarker[scope[k]]}
    IN  IF marked = {} THEN Len(scope) + 1
        ELSE CHOOSE k \in marked : \A j \in marked : k <= j

\* C28: a procedure closed by go and over the budget is split at its first
\* line that begins with as or begin: header_lines are exactly the lines
\* before it, and the content of the header unit; body_lines are that line
\* and all lines after it; together they are the lines of the procedure,
\* each once.
C28_SplitAtFirstBodyMarker ==
    ext_pc = "chunker_returned" =>
        \A n \in 1..Len(ext_splits) :
            LET scope == ext_splits[n].scope
                k == MarkerLine(scope)
            IN  /\ ext_splits[n].header_lines = SubSeq(scope, 1, k - 1)
                /\ ext_splits[n].body_lines = SubSeq(scope, k, Len(scope))
                /\ ext_splits[n].header_lines \o ext_splits[n].body_lines
                       = scope
                /\ \E p \in 1..Len(ext_chunks) :
                       /\ ext_chunks[p].type = "header"
                       /\ ext_chunks[p].content = ext_splits[n].header_lines

\* C28 witness: a procedure with a blank line before its BEGIN and a line as
\* after it was split at the BEGIN.
C28_Witness ==
    /\ ext_pc = "chunker_returned"
    /\ Len(ext_splits) = 1
    /\ ext_splits[1].header_lines
           = <<Line("create proc pa", 0), Line("   ", 0)>>
    /\ ext_splits[1].body_lines
           = <<Line("BEGIN", 0), Line("select 1", LongPad), Line("as", 0),
               Line("go", 0)>>
    /\ ext_chunks[1].content = ext_splits[1].header_lines

-----------------------------------------------------------------------------
(* C29, C30: the extraction chunker, sizes of the units *)

\* C29 (as claimed): every part of a body that the chunker split for being
\* over the budget is itself within the budget: the estimate of its content,
\* its length divided by 3, is at most max_input_tokens.
C29_BodyPartsWithinBudget ==
    ext_pc = "chunker_returned" =>
        \A p \in 1..Len(ext_chunks) :
            IsBodyPart(p) =>
                estimate_tokens(JoinedLen(ext_chunks[p].content))
                    <= max_input_tokens

\* The index of the line that opens the scope still open at the end of the
\* input: the last line that starts a procedure, when no line go follows
\* it; 0 if no scope is open.
OpenScopeStart(lines) ==
    LET starts == {k \in 1..Len(lines) : StartsProcedure[lines[k]]}
    IN  IF starts = {} THEN 0
        ELSE LET c == CHOOSE k \in starts : \A j \in starts : j <= k
             IN  IF \E j \in (c + 1)..Len(lines) : LineLower[lines[j]] = "go"
                 THEN 0
                 ELSE c

\* C30 (as claimed): the lines of a scope that the end of the input leaves
\* open are flushed as a closed scope is: as one full unit if their estimate
\* is within the budget, as a header unit and body units otherwise.
C30_OpenScopeFlushedByBudgetRule ==
    (/\ ext_pc = "chunker_returned"
     /\ sql_content # EmptyContent
     /\ OpenScopeStart(sql_content) # 0) =>
        LET c == OpenScopeStart(sql_content)
            open == SubSeq(sql_content, c, Len(sql_content))
            last == ext_chunks[Len(ext_chunks)]
        IN  IF estimate_tokens(JoinedLen(open)) <= max_input_tokens
            THEN last = Chunk("full", open, ProcNameOf[sql_content[c]], -1, -1)
            ELSE last.type \in {"header", "body"}

-----------------------------------------------------------------------------
(* File loading and main: load_sql_files, get_target_file_path, main        *)
(* (src/sql_converter.py)                                                   *)

\* The files the program finds and their contents: a directory d with two
\* SQL files and a text file, and a subdirectory with one more SQL file.
FileContent ==
    ("d/a.sql" :> "SELECT 1") @@ ("d/b.sql" :> "SELECT 2")
        @@ ("d/a.txt" :> "x") @@ ("d/sub/c.sql" :> "SELECT 3")

Files == DOMAIN FileContent

Directories == {"d", "d/sub"}

\* str.endswith(suffix)
EndsWith(s, suffix) ==
    /\ Len(s) >= Len(suffix)
    /\ SubSeq(s, Len(s) - Len(suffix) + 1, Len(s)) = suffix

\* str.rfind(c) + 1 for a character c: its last index in s[1..k], 0 if none.
RECURSIVE RFindFrom(_, _, _)
RFindFrom(s, c, k) ==
    IF k = 0 THEN 0
    ELSE IF CharAt(s, k) = c THEN k ELSE RFindFrom(s, c, k - 1)

RFind(s, c) == RFindFrom(s, c, Len(s))

\* str.rstrip('/')
RECURSIVE RStripSlash(_)
RStripSlash(s) ==
    IF Len(s) > 0 /\ CharAt(s, Len(s)) = "/"
    THEN RStripSlash(SubSeq(s, 1, Len(s) - 1)) ELSE s

\* os.path.dirname(p): what is before the last slash, without trailing
\* slashes unless it consists of slashes.
dirname(p) ==
    LET head == SubSeq(p, 1, RFind(p, "/"))
    IN  IF RStripSlash(head) = "" THEN head ELSE RStripSlash(head)

\* os.path.basename(p)
basename(p) == SubSeq(p, RFind(p, "/") + 1, Len(p))

\* os.path.splitext(p)[0]: p without its extension, the last dot of the file
\* name and what follows it, leading dots of the name not counting.
splitext_root(p) ==
    LET sep == RFind(p, "/")
        dot == RFind(p, ".")
    IN  IF dot > sep /\ \E k \in (sep + 1)..(dot - 1) : CharAt(p, k) # "."
        THEN SubSeq(p, 1, dot - 1)
        ELSE p

\* os.path.join(a, b) for a relative b
path_join(a, b) ==
    IF a = "" THEN b
    ELSE IF EndsWith(a, "/") THEN a \o b ELSE a \o "/" \o b

\* fnmatch.fnmatchcase(name, pat) for a pattern whose only special character
\* is the asterisk.
RECURSIVE FnMatch(_, _)
FnMatch(name, pat) ==
    IF Len(pat) = 0 THEN Len(name) = 0
    ELSE IF CharAt(pat, 1) = "*"
    THEN \/ FnMatch(name, SubSeq(pat, 2, Len(pat)))
         \/ Len(name) > 0 /\ FnMatch(SubSeq(name, 2, Len(name)), pat)
    ELSE /\ Len(name) > 0
         /\ CharAt(name, 1) = CharAt(pat, 1)
         /\ FnMatch(SubSeq(name, 2, Len(name)), SubSeq(pat, 2, Len(pat)))

\* os.listdir(dir): the names of the files and directories in dir.
listdir(dir) ==
    {basename(p) : p \in {q \in Files \cup Directories : dirname(q) = dir}}

\* glob.glob(pattern), as a set, for a pattern with asterisks in its last
\* component: the entries of its directory whose names match, hidden names
\* left out.
glob(pattern) ==
    {path_join(dirname(pattern), name) :
        name \in {n \in listdir(dirname(pattern)) :
                     /\ FnMatch(n, basename(pattern))
                     /\ StartsWith(n, ".") =>
                            StartsWith(basename(pattern), ".")}}

\* The orders in which a directory listing can give the members of S.
Orderings(S) ==
    {q \in [1..Cardinality(S) -> S] :
        \A i, j \in 1..Cardinality(S) : q[i] = q[j] => i = j}

\* What load_sql_files does: it returns files, a list of <<path, content>>,
\* or raises.
Loaded(files) == [raised |-> "", files |-> files]
LoadRaised(error) == [raised |-> error, files |-> <<>>]

\* The exception of open(path, 'r'), "" if the file opens.
OpenError(path) ==
    IF path \in Files THEN ""
    ELSE IF path \in Directories THEN "IsADirectoryError"
    ELSE "FileNotFoundError"

\* with open(path) as f: files_content.append((path, f.read())), for the
\* paths of a list in order; the first file that does not open raises.
RECURSIVE OpenAll(_)
OpenAll(paths) ==
    IF Len(paths) = 0 THEN Loaded(<<>>)
    ELSE IF OpenError(Head(paths)) # "" THEN LoadRaised(OpenError(Head(paths)))
    ELSE LET rest == OpenAll(Tail(paths))
         IN  IF rest.raised # "" THEN rest
             ELSE Loaded(<<<<Head(paths), FileContent[Head(paths)]>>>>
                             \o rest.files)

\* b after a, an exception of a leaving b undone.
LoadThen(a, b) ==
    IF a.raised # "" THEN a
    ELSE IF b.raised # "" THEN b
    ELSE Loaded(a.files \o b.files)

\* for path in paths: the branch for a source path with a semicolon.  A path
\* with an asterisk is expanded by glob.glob, any other is opened as it is.
RECURSIVE LoadPaths(_)
LoadPaths(paths) ==
    IF Len(paths) = 0 THEN {Loaded(<<>>)}
    ELSE LET path == Head(paths)
             first == IF Find(path, "*", 1) # 0
                      THEN {OpenAll(o) : o \in Orderings(glob(path))}
                      ELSE {OpenAll(<<path>>)}
         IN  {LoadThen(a, b) : a \in first, b \in LoadPaths(Tail(paths))}

\* The concatenation of a list of lists.
RECURSIVE Flatten(_)
Flatten(ls) == IF Len(ls) = 0 THEN <<>> ELSE Head(ls) \o Flatten(Tail(ls))

\* for root, _, files in os.walk(top): the paths of the files with the
\* suffix .sql, those of a directory before those of its subdirectories, in
\* each order the listings can have.
RECURSIVE Walk(_)
Walk(top) ==
    LET here == {p \in Files : dirname(p) = top /\ EndsWith(basename(p), ".sql")}
        subs == {d \in Directories : dirname(d) = top}
    IN  {f \o Flatten([i \in 1..Len(o) |-> w[o[i]]]) :
            f \in Orderings(here),
            o \in Orderings(subs),
            w \in {v \in [subs -> UNION {Walk(d) : d \in subs}] :
                      \A d \in subs : v[d] \in Walk(d)}}

\* load_sql_files(source_path): the outcomes it can have.
load_sql_files(path) ==
    IF Find(path, ";", 1) # 0 THEN LoadPaths(Split(path, ";"))
    ELSE IF path \in Directories THEN {OpenAll(fs) : fs \in Walk(path)}
    ELSE {OpenAll(<<path>>)}

\* get_target_file_path(source_file, target_config)
get_target_file_path(source_file, config) ==
    IF Lower(config) = "auto"
    THEN splitext_root(source_file) \o "_result.sql"
    ELSE config

\* The values of SOURCE_DB_CODE_FILE tried: a file, a list, a pattern, a
\* list with a pattern in it, a directory, a list whose files differ in
\* their extension only, and a file that does not exist.
SourcePaths ==
    {"d/a.sql", "d/a.sql;d/b.sql", "d/*.sql", "d/a.sql;d/sub/*.sql", "d",
     "d/a.sql;d/a.txt", "d/none.sql"}

\* The values of TARGET_DB_CODE_FILE tried: the default in two spellings, a
\* file in a directory and a file without one.
TargetConfigs == {"auto", "Auto", "out/r.sql", "r.sql"}

InitMain ==
    /\ ConvIdle
    /\ ExtIdle
    /\ source_path \in SourcePaths
    /\ target_config \in TargetConfigs
    /\ sql_files = <<>>
    /\ main_pc = "load_sql_files"
    /\ file_i = 0
    /\ conversions = <<>>
    /\ writes = <<>>
    /\ main_error = ""
    /\ sql_chunks = <<"unset">>

\* main up to its loop: sql_files = load_sql_files(converter.source_path).
\* An exception ends main in its except clause, and so does an empty list.
LoadSqlFiles ==
    /\ main_pc = "load_sql_files"
    /\ \E r \in load_sql_files(source_path) :
          IF r.raised # ""
          THEN /\ main_error' = r.raised
               /\ main_pc' = "done"
               /\ UNCHANGED <<sql_files, file_i>>
          ELSE /\ sql_files' = r.files
               /\ main_error' = main_error
               /\ IF Len(r.files) = 0
                  THEN main_pc' = "done" /\ file_i' = file_i
                  ELSE main_pc' = "convert" /\ file_i' = 1
    /\ UNCHANGED <<source_path, target_config, conversions, writes,
                   sql_chunks>>
    /\ UNCHANGED conv_vars
    /\ UNCHANGED ext_vars

\* One pass of the loop of main: convert_sql gives a text or None; a text is
\* written to the target file, after os.makedirs of its directory, which
\* raises for the directory name "".
ConvertFile ==
    /\ main_pc = "convert"
    /\ \E converted \in BOOLEAN :
          LET source_file == sql_files[file_i][1]
              target_file == get_target_file_path(source_file, target_config)
          IN  /\ conversions' = Append(conversions, converted)
              /\ IF converted /\ dirname(target_file) = ""
                 THEN /\ main_error' = "FileNotFoundError"
                      /\ main_pc' = "done"
                      /\ UNCHANGED <<writes, file_i>>
                 ELSE /\ writes' =
                             IF converted
                             THEN Append(writes, [source |-> source_file,
                                                  target |-> target_file])
                             ELSE writes
                      /\ main_error' = main_error
                      /\ IF file_i = Len(sql_files)
                         THEN main_pc' = "done" /\ file_i' = file_i
                         ELSE main_pc' = main_pc /\ file_i' = file_i + 1
    /\ UNCHANGED <<source_path, target_config, sql_files, sql_chunks>>
    /\ UNCHANGED conv_vars
    /\ UNCHANGED ext_vars

NextMain == LoadSqlFiles \/ ConvertFile

SpecMain == InitMain /\ [][NextMain]_vars

-----------------------------------------------------------------------------
(* C23, C24: the files loaded and the files written *)

\* A source path that is one pattern: an asterisk and no semicolon.
IsPattern(path) == Find(path, "*", 1) # 0 /\ Find(path, ";", 1) = 0

\* C23 (as claimed): for a source path that is one pattern, load_sql_files
\* returns one entry <<path, content>> for each existing file whose path
\* matches the pattern.
C23_PatternLoadsMatchingFiles ==
    (main_pc \in {"convert", "done"} /\ IsPattern(source_path)) =>
        /\ Len(sql_files) = Cardinality(glob(source_path) \cap Files)
        /\ {sql_files[i] : i \in 1..Len(sql_files)}
               = {<<p, FileContent[p]>> : p \in glob(source_path) \cap Files}

\* C24 (as claimed): when main has gone through two or more input files and
\* every conversion gave a text, each input file has an output file of its
\* own: one file was written per input file and no two of them at the same
\* path.
C24_OneOutputPerInput ==
    (/\ main_pc = "done"
     /\ Len(sql_files) >= 2
     /\ Len(conversions) = Len(sql_files)
     /\ \A i \in 1..Len(conversions) : conversions[i]) =>
        /\ Len(writes) = Len(sql_files)
        /\ \A i, j \in 1..Len(writes) :
               writes[i].target = writes[j].target => i = j

-----------------------------------------------------------------------------
(* C22: the accumulator across calls *)

\* C22: while a call processes its units, the record a body unit is merged
\* into, the first record of partial_results with its procedure's name, was
\* seeded by a header of the same call; and no step changes an object of a
\* list that an earlier call returned.
C22_AccumulatorIsPerFile ==
    /\ [](ext_pc = "call" /\ ext_chunks[ext_i].type = "body" =>
             LET k == FirstMatch(partial_results, ext_chunks[ext_i].proc_name)
             IN  k # 0 => seeded_in[k] = file_no)
    /\ [][\A n \in 1..Len(earlier_returned) :
              earlier_returned'[n] = earlier_returned[n]]_vars

\* C22 witness: the first call returned the record of a procedure pa; the
\* second call, for a file whose procedure pa is split in header and body,
\* has given the body the parameters of the header of its own file, the
\* only record in partial_results.
C22_Witness ==
    /\ file_no = 2
    /\ ext_pc = "returned"
    /\ Len(earlier_returned) = 1
    /\ Len(earlier_returned[1]) = 1
    /\ earlier_returned[1][1].proc_name = "pa"
    /\ Len(ext_chunks) = 2
    /\ ext_chunks[2] = Unit("body", "pa", -1, -1)
    /\ Len(partial_results) = 1
    /\ partial_results[1].proc_name = "pa"
    /\ partial_results[1].oid = <<2, 1>>
    /\ seeded_in = <<2>>
    /\ Len(ext_returned) = 1
    /\ ext_returned[1].in_params = <<"a", "b">>

-----------------------------------------------------------------------------
(* C31 *)

\* The first index from k on of a character of t that is (blank = TRUE) or
\* is not (blank = FALSE) white space, Len(t) + 1 if there is none.
RECURSIVE NextAt(_, _, _)
NextAt(t, k, blank) ==
    IF k > Len(t) \/ ((CharAt(t, k) \in Whitespace) = blank) THEN k
    ELSE NextAt(t, k + 1, blank)

\* The n-th word of t from index k on, "" if t has fewer words.
RECURSIVE WordFrom(_, _, _)
WordFrom(t, k, n) ==
    LET from == NextAt(t, k, FALSE)
        to == NextAt(t, from, TRUE)
    IN  IF from > Len(t) THEN ""
        ELSE IF n = 1 THEN SubSeq(t, from, to - 1)
        ELSE WordFrom(t, to, n - 1)

\* The token that follows the two words of the create-procedure marker.
TokenAfterMarker == [line \in AllLines |-> WordFrom(line.text, 1, 3)]

\* The unit that opened the procedure unit i belongs to: the last full or
\* header unit up to i.
OpeningUnit(units, i) ==
    CHOOSE h \in 1..i :
        /\ units[h].type \in {"full", "header"}
        /\ \A j \in (h + 1)..i : units[j].type = "body"

\* C31: every unit of a procedure is owned by the token that follows the
\* create-procedure marker on the line that opened the scope, also when the
\* line goes on after the name.
C31_OwnerIsTokenAfterMarker ==
    ext_pc = "chunker_returned" =>
        \A i \in 1..Len(ext_chunks) :
            ext_chunks[i].proc_name =
                TokenAfterMarker[
                    ext_chunks[OpeningUnit(ext_chunks, i)].content[1]]

-----------------------------------------------------------------------------
(* C32 *)

\* No model call of the file has failed: a failed call either is followed
\* by a sleep of retry_delay or more, or raises.
NoCallFailed == last_sleep = 0 /\ raised = ""

\* The procedures the chunker found: each has one full or one header unit.
ProceduresFound ==
    {i \in 1..Len(ext_chunks) : ext_chunks[i].type \in {"full", "header"}}

\* C32: when every model call of a file succeeded, process_sql_file returns
\* as many records as the chunker found procedures, whatever units each
\* procedure was split into.
C32_OneRecordPerProcedure ==
    (ext_pc = "returned" /\ file_readable /\ NoCallFailed) =>
        Len(ext_returned) = Cardinality(ProceduresFound)

-----------------------------------------------------------------------------
(* C33 *)

\* C33: a record of partial_results changes only when process_sql_file
\* starts, or in the step in which the call of the current unit gave an
\* extraction and the unit ended: no attempt that fails and is retried merges
\* anything, so each body part is merged at most once.
C33_BodyPartMergedAtMostOnce ==
    [][partial_results' # partial_results =>
          \/ ext_pc = "process_sql_file"
          \/ /\ ext_pc = "call"
             /\ last_outcome' = "extraction"
             /\ Len(unit_answers) = ext_i - 1
             /\ Len(unit_answers') = ext_i]_vars

\* The second part of a body was merged at the third attempt, after two
\* attempts that failed.
C33_Witness ==
    /\ ext_pc = "returned"
    /\ raised = ""
    /\ Len(ext_chunks) = 3
    /\ ext_chunks[3] = Unit("body", "pa", 1, 2)
    /\ unit_calls = 3
    /\ Len(partial_results) = 1
    /\ partial_results[1].description = "x\ny"

-----------------------------------------------------------------------------
(* C34 *)

\* C34: for every text and every budget, split_sql_content returns the list
\* of units SQLConverter._split_sql_into_chunks returns.
C34_ChunkersAgree ==
    (pc = "chunker_returned" /\ sql_chunks # <<"unset">>) =>
        sql_chunks = chunks

\* Both were called on a statement over the budget, which they split into
\* its blocks.
C34_Witness ==
    /\ pc = "chunker_returned"
    /\ sql_chunks = chunks
    /\ Len(chunks) >= 2
    /\ \A n \in 1..Len(chunks) : StartsWith(chunks[n], "begin")

-----------------------------------------------------------------------------
(* C35 *)

\* The lines that open a scope, and the n-th of a set of indices.
CreateLines(lines) == {k \in 1..Len(lines) : StartsProcedure[lines[k]]}

NthOf(S, n) == CHOOSE k \in S : Cardinality({j \in S : j < k}) = n - 1

\* The line that ends the scope opened at line s: the first later line that
\* is the separator or opens the next scope, Len(lines) + 1 if there is none.
ScopeEnd(lines, s) ==
    LET ends == {j \in (s + 1)..Len(lines) :
                    LineLower[lines[j]] = "go" \/ StartsProcedure[lines[j]]}
    IN  IF ends = {} THEN Len(lines) + 1
        ELSE CHOOSE j \in ends : \A k \in ends : j <= k

\* The lines of the units from index i to index j, in the order of the units.
RECURSIVE LinesOfUnits(_, _, _)
LinesOfUnits(units, i, j) ==
    IF i > j THEN <<>>
    ELSE units[i].content \o LinesOfUnits(units, i + 1, j)

\* The lines of the units of the n-th procedure of the list.
LinesOfProcedure(units, n) ==
    LET opening == {i \in 1..Len(units) : units[i].type \in {"full", "header"}}
        first == NthOf(opening, n)
        last == IF n < Cardinality(opening) THEN NthOf(opening, n + 1) - 1
                ELSE Len(units)
    IN  LinesOfUnits(units, first, last)

\* C35: the units of a procedure closed by the separator hold, in their
\* order, the lines gathered for its scope, from the line that opened it to
\* the separator line, each line once.
C35_LosslessWithinProcedure ==
    (ext_pc = "chunker_returned" /\ sql_content # EmptyContent) =>
        \A s \in CreateLines(sql_content) :
            LET e == ScopeEnd(sql_content, s)
                n == Cardinality({j \in CreateLines(sql_content) : j <= s})
            IN  (e <= Len(sql_content) /\ LineLower[sql_content[e]] = "go") =>
                    LinesOfProcedure(ext_chunks, n) = SubSeq(sql_content, s, e)

-----------------------------------------------------------------------------
(* C36 *)

\* The model requests that are running: those given up after a timeout, and
\* the one extract_from_chunk is waiting for.
OutstandingCalls == abandoned_calls + (IF ext_pc = "call" THEN 1 ELSE 0)

\* C36: in the extraction path at most one model request is running at any
\* time, also when a retry or the next unit's call follows a timeout.
C36_AtMostOneRequestOutstanding == OutstandingCalls <= 1

-----------------------------------------------------------------------------
(* C37 *)

=============================================================================
